---- MODULE Spec2Model ----
(***************************************************************************)
(* saint-peter: token lifecycle (authenticate / renew-token), the          *)
(* authorization gates (requireAuthentication, allowUsers, allowGroups)    *)
(* and the credential store (FileAuthDB, SQLAuthDB) with its bootstrap.    *)
(*                                                                         *)
(* The repository holds two revisions of the entry module: src/index.js    *)
(* (instance gates, authenticate with a hard-coded lifetime) and           *)
(* src/src/index.js (static gates, configured lifetime).  A deployment     *)
(* loads one of them; the variable `entry` says which.                     *)
(*                                                                         *)
(* Time is counted in ticks, TicksPerSecond ticks to the second, so that   *)
(* Math.floor(Date.now() / 1000) and (new Date()).getTime() / 1000 differ  *)
(* as they do in the code.                                                 *)
(*                                                                         *)
(* Specifications:                                                         *)
(*   Spec            token lifecycle and gates over the file-backed store  *)
(*   GateSpec        the gates on any token the secret signed              *)
(*   StoreSpec       store methods behind their management routes, for     *)
(*                   FileAuthDB and SQLAuthDB                              *)
(*   ConcurrentSpec  FileAuthDB calls interleaving at their awaits         *)
(*   BootSpec        initializeDB, one await at a time                     *)
(*   DecodeSpec      the promises of the token codecs, with fairness       *)
(*   RouterSpec      the routers of users(), groups() and defaultRouters   *)
(*   RenewSpec       renew-token against users added and deleted           *)
(*   RunsSpec        two runs of initializeDB on one empty store           *)
(*   InitializeSpec  initializeDB beside the initialize() it does not      *)
(*                   await                                                 *)
(***************************************************************************)
EXTENDS Integers, Sequences, FiniteSets, TLC

VARIABLES entry, config, fileContents, now, held, last, nMut,
          backend, sql, call, procs, disk

\* the backend in use, the relational database, the last call of a store
\* method, the store calls in progress, and the file of FileAuthDB on disk
others == <<backend, sql, call, procs, disk>>

vars == <<entry, config, fileContents, now, held, last, nMut, others>>

\* ---------------------------------------------------------------- bounds
MaxTime == 4
TicksPerSecond == 2
MaxMutations == 2

Usernames == {"admin", "bob"}
GroupNames == {"admin", "ops"}
Passwords == {"admin", "pw"}
Emails == {"", "a@x"}
Salts == {"s1"}
Lifetimes == {0, 1}
IdleTimeouts == {0, 1}

Secret == "secret"
WrongSecret == "not-the-secret"
Undefined == "<undefined>"

\* 60 * 60, the lifetime and idle timeout src/index.js hard-codes in authenticate
HardCodedLifetime == 3600

\* ------------------------------------------------------------- JS helpers
\* Array.prototype.indexOf: 0-based index of the first occurrence, or -1
IndexOf(arr, x) ==
  IF \E i \in 1..Len(arr) : arr[i] = x
  THEN (CHOOSE i \in 1..Len(arr) : arr[i] = x /\ \A j \in 1..(i - 1) : arr[j] # x) - 1
  ELSE -1

\* Math.floor(Date.now() / 1000)
FloorSeconds(t) == t \div TicksPerSecond

\* String.prototype.toLowerCase on the authorization schemes of the model
ToLowerCase(s) ==
  CASE s = "Bearer" -> "bearer"
    [] s = "Basic" -> "basic"
    [] OTHER -> s

\* -------------------------------------------------------- PasswordHandler
\* ./PasswordHandler is not among the sources: salted one-way hash and its check
hashPassword(password, salt) == [salt |-> salt, pw |-> password]

verifyPassword(password, combinedHash) == combinedHash.pw = password

\* the value of users[username].password when there is no such record: undefined
NoHash == [salt |-> Undefined, pw |-> Undefined]

\* what verifyPassword may do: "true" or "false" on a hash hashPassword made;
\* on a value that is no hash it is only known not to return true
verifyPasswordReturns(password, combinedHash) ==
  IF combinedHash = NoHash THEN {"false", "throws"}
  ELSE {IF verifyPassword(password, combinedHash) THEN "true" ELSE "false"}

\* ------------------------------------------------------------- FileAuthDB
\* names every object inherits from Object.prototype (toString, constructor,
\* valueOf, ...), as far as the usernames of the model go
ObjectPrototypeNames == {"toString"}

\* the users object has a record of its own under the name
OwnUser(username) == username \in DOMAIN fileContents.users

\* `username in this.fileContents.users`: own or inherited property
HasUser(username) == OwnUser(username) \/ username \in ObjectPrototypeNames

\* this.fileContents.users[username].password
PasswordOf(username) ==
  IF OwnUser(username) THEN fileContents.users[username].password ELSE NoHash

\* TRUE exactly when the call returns true
authenticateUser(username, password) ==
  HasUser(username) /\ verifyPassword(password, PasswordOf(username))

\* the ways the call can end: "true", "false" or "throws"
authenticateUserReturns(username, password) ==
  IF ~HasUser(username) THEN {"false"}
  ELSE verifyPasswordReturns(password, PasswordOf(username))

\* getUser / getUserGroups / getUserEmail ... read fileContents.users[username]
\* and throw a TypeError when the user is absent
getUserThrows(username) == ~HasUser(username)

getUser(username) ==
  [username |-> username,
   email |-> fileContents.users[username].email,
   firstName |-> fileContents.users[username].firstName,
   lastName |-> fileContents.users[username].lastName,
   groups |-> fileContents.users[username].groups]

getUserGroups(username) == fileContents.users[username].groups

getGroups == fileContents.groups

\* -------------------------------------------------------------- tokens
\* The claims of a token.  A claim the issuer leaves out is Undefined (a
\* string), an absent number is -1; hasGroups is ('groups' in decodedToken).
NoClaims ==
  [exp |-> -1, renewalExpirationDate |-> -1, username |-> Undefined, groups |-> <<>>,
   email |-> Undefined, firstName |-> Undefined, lastName |-> Undefined,
   iss |-> Undefined, iat |-> -1, hasGroups |-> FALSE]

\* A compact JWS: the claims, and the HS256 signature as the pair (key, signed
\* claims) that verification recomputes.  wellFormed = FALSE is a string that
\* is not header.claims.signature.
NoToken == [wellFormed |-> FALSE, claims |-> NoClaims, sigKey |-> Undefined, sigOver |-> NoClaims]

\* jwt.sign(token, jwtSecret, {algorithm: 'HS256'}) at clock reading t: adds iat
encodeToken(token, jwtSecret, t) ==
  LET payload == [token EXCEPT !.iat = FloorSeconds(t)]
  IN [wellFormed |-> TRUE, claims |-> payload, sigKey |-> jwtSecret, sigOver |-> payload]

Rejected(message) == [ok |-> FALSE, err |-> message, claims |-> NoClaims]

Resolved(decodedToken) == [ok |-> TRUE, err |-> "", claims |-> decodedToken]

\* jwt.verify(token, jwtSecret, options) at clock reading t
decodeToken_NoExpiryCheck(token, jwtSecret, ignoreExpiration, t) ==
  IF ~token.wellFormed THEN Rejected("jwt malformed")
  ELSE IF jwtSecret = Undefined THEN Rejected("secret or public key must be provided")
  ELSE IF token.sigKey # jwtSecret \/ token.sigOver # token.claims
       THEN Rejected("invalid signature")
  ELSE Resolved(token.claims)

decodeToken(token, jwtSecret, ignoreExpiration, t) ==
  IF ~token.wellFormed THEN Rejected("jwt malformed")
  ELSE IF jwtSecret = Undefined THEN Rejected("secret or public key must be provided")
  ELSE IF token.sigKey # jwtSecret \/ token.sigOver # token.claims
       THEN Rejected("invalid signature")
  ELSE IF ~ignoreExpiration /\ token.claims.exp # -1 /\ FloorSeconds(t) >= token.claims.exp
       THEN Rejected("jwt expired")
  ELSE Resolved(token.claims)

\* The Authorization header of a request: absent, or its parts after
\* split(' '): nparts of them, parts[0] = scheme, parts[1] = token.
NoHeader == [present |-> FALSE, nparts |-> 0, scheme |-> Undefined, token |-> NoToken]

Header(scheme, token) == [present |-> TRUE, nparts |-> 2, scheme |-> scheme, token |-> token]

OnePartHeader(scheme) == [present |-> TRUE, nparts |-> 1, scheme |-> scheme, token |-> NoToken]

decodeTokenHeader(authHeader, jwtSecret, ignoreExpiration, t) ==
  IF authHeader.present
  THEN IF authHeader.nparts >= 2 /\ ToLowerCase(authHeader.scheme) = "bearer"
       THEN decodeToken(authHeader.token, jwtSecret, ignoreExpiration, t)
       ELSE Rejected("Error parsing Authorization header")
  ELSE Rejected("No Authorization header")

\* a promise whose executor returned without calling resolve or reject
Pending == [ok |-> FALSE, err |-> Undefined, claims |-> NoClaims]

\* decodeToken(req, jwtSecret, options) of JWT.js: with no Authorization
\* header the executor does nothing
JWT_decodeToken(authHeader, jwtSecret, ignoreExpiration, t) ==
  IF authHeader.present
  THEN IF authHeader.nparts >= 2 /\ ToLowerCase(authHeader.scheme) = "bearer"
       THEN decodeToken(authHeader.token, jwtSecret, ignoreExpiration, t)
       ELSE Rejected("error parsing Authorization header")
  ELSE Pending

\* ----------------------------------------------------------- responses
\* What a handler did: called next(), or sent res.status(status).json(body).
\* Body fields the handler does not send are Undefined / <<>> / -1 / NoToken.
NoBody ==
  [success |-> FALSE, message |-> Undefined, token |-> NoToken, username |-> Undefined,
   groups |-> <<>>, email |-> Undefined, firstName |-> Undefined,
   lastName |-> Undefined, tokenExpirationDate |-> -1]

NoResponse == [next |-> FALSE, status |-> 0, body |-> NoBody]

CallNext == [next |-> TRUE, status |-> 0, body |-> NoBody]

\* res.status(403).json({success: false, message: 'Forbidden'})
Forbidden == [next |-> FALSE, status |-> 403, body |-> [NoBody EXCEPT !.message = "Forbidden"]]

\* res.status(401).json({success: false})
AuthenticationFailed == [next |-> FALSE, status |-> 401, body |-> NoBody]

\* res.status(401).json({success: false, message: 'Expired token'})
ExpiredToken ==
  [next |-> FALSE, status |-> 401, body |-> [NoBody EXCEPT !.message = "Expired token"]]

\* res.json({success: true, token: ..., username: ..., groups: ..., ...})
TokenResponse(token, username, user, expirationDate) ==
  [next |-> FALSE, status |-> 200,
   body |-> [success |-> TRUE, message |-> Undefined, token |-> token,
             username |-> username, groups |-> user.groups, email |-> user.email,
             firstName |-> user.firstName, lastName |-> user.lastName,
             tokenExpirationDate |-> expirationDate]]

\* ------------------------------------------- session issuer, src/src/index.js
\* the claims object both handlers build before signing
IssuedClaims(username, user, expirationDate, renewalExpirationDate, issuer) ==
  [exp |-> expirationDate, renewalExpirationDate |-> renewalExpirationDate,
   username |-> username, groups |-> user.groups, email |-> user.email,
   firstName |-> user.firstName, lastName |-> user.lastName,
   iss |-> issuer, iat |-> -1, hasGroups |-> TRUE]

\* Math.floor(Date.now() / 1000) + this.config.tokenLifetime
ExpirationDate_IdleTimeout(t) == FloorSeconds(t) + config.tokenIdleTimeout

ExpirationDate(t) == FloorSeconds(t) + config.tokenLifetime

\* the 401 of a failed authenticateUser, the same for every cause
AuthenticationFailure_TellsUnknown(username) ==
  IF HasUser(username) THEN AuthenticationFailed
  ELSE [AuthenticationFailed EXCEPT !.body.message = "Unknown user"]

AuthenticationFailure(username) == AuthenticationFailed

authenticateParsedRequest(username, password, t) ==
  IF ~authenticateUser(username, password) THEN AuthenticationFailure(username)
  ELSE LET user == getUser(username)
           expirationDate == ExpirationDate(t)
           renewalExpirationDate == expirationDate + config.tokenIdleTimeout
           token == encodeToken(IssuedClaims(username, user, expirationDate,
                                             renewalExpirationDate, config.issuer),
                                config.jwtSecret, t)
       IN TokenResponse(token, username, user, expirationDate)

\* Object.assign({}, jwtVerifyOptions, {ignoreExpiration: true})
RenewIgnoreExpiration_Off == FALSE

RenewIgnoreExpiration == TRUE

\* decodedOldToken.renewalExpirationDate < (new Date()).getTime() / 1000;
\* without the claim the comparison is undefined < number, which is false
RenewalExpired_WholeSeconds(decodedOldToken, t) ==
  /\ decodedOldToken.renewalExpirationDate # -1
  /\ decodedOldToken.renewalExpirationDate < FloorSeconds(t)

RenewalExpired(decodedOldToken, t) ==
  /\ decodedOldToken.renewalExpirationDate # -1
  /\ decodedOldToken.renewalExpirationDate * TicksPerSecond < t

\* let user = await this.authDB.getUser(username)
RenewedUser_FromToken(decodedOldToken) ==
  [getUser(decodedOldToken.username) EXCEPT !.groups = decodedOldToken.groups,
                                            !.email = decodedOldToken.email]

RenewedUser(decodedOldToken) == getUser(decodedOldToken.username)

\* t: the clock reading of the renewal-deadline test; t2 >= t: the later
\* reading from which the new expiration date is computed
renewTokenParsedRequest(authHeader, t, t2) ==
  LET decodedOldToken ==
        decodeTokenHeader(authHeader, config.jwtSecret, RenewIgnoreExpiration, t)
  IN IF ~decodedOldToken.ok THEN ExpiredToken
     ELSE IF RenewalExpired(decodedOldToken.claims, t) THEN ExpiredToken
     ELSE LET username == decodedOldToken.claims.username
          IN IF getUserThrows(username) THEN ExpiredToken
             ELSE LET user == RenewedUser(decodedOldToken.claims)
                      expirationDate == ExpirationDate(t2)
                      renewalExpirationDate == expirationDate + config.tokenIdleTimeout
                      token == encodeToken(IssuedClaims(username, user, expirationDate,
                                                        renewalExpirationDate, config.issuer),
                                           config.jwtSecret, t2)
                  IN TokenResponse(token, username, user, expirationDate)

\* ------------------------------------------------- gates, src/src/index.js
\* `this` in a static method is the class: SaintPeter.authDB is never assigned
ClassHasAuthDB == FALSE

\* for (let tokenGroup of tokenGroups) if (groups.indexOf(tokenGroup) >= 0) return next()
SomeGroupIn(tokenGroups, groups) ==
  \E i \in 1..Len(tokenGroups) : IndexOf(groups, tokenGroups[i]) >= 0

requireAuthentication(jwtSecret, authHeader, t) ==
  IF decodeTokenHeader(authHeader, jwtSecret, FALSE, t).ok THEN CallNext ELSE Forbidden

allowUsers_IndexPositive(users, jwtSecret, authHeader, t) ==
  LET decodedToken == decodeTokenHeader(authHeader, jwtSecret, FALSE, t)
  IN IF ~decodedToken.ok THEN Forbidden
     ELSE IF IndexOf(users, decodedToken.claims.username) <= 0 THEN Forbidden
     ELSE CallNext

allowUsers(users, jwtSecret, authHeader, t) ==
  LET decodedToken == decodeTokenHeader(authHeader, jwtSecret, FALSE, t)
  IN IF ~decodedToken.ok THEN Forbidden
     ELSE IF IndexOf(users, decodedToken.claims.username) < 0 THEN Forbidden
     ELSE CallNext

allowGroups_NoGroupsUnauthorized(groups, jwtSecret, authHeader, t) ==
  LET decodedToken == decodeTokenHeader(authHeader, jwtSecret, FALSE, t)
  IN IF ~decodedToken.ok THEN Forbidden
     ELSE IF ~decodedToken.claims.hasGroups
          THEN [AuthenticationFailed EXCEPT !.body.message = "No groups in token"]
     ELSE IF SomeGroupIn(decodedToken.claims.groups, groups) THEN CallNext
     ELSE Forbidden

allowGroups(groups, jwtSecret, authHeader, t) ==
  LET decodedToken == decodeTokenHeader(authHeader, jwtSecret, FALSE, t)
  IN IF ~decodedToken.ok THEN Forbidden
     ELSE IF ~decodedToken.claims.hasGroups THEN Forbidden
     ELSE IF SomeGroupIn(decodedToken.claims.groups, groups) THEN CallNext
     ELSE IF ClassHasAuthDB
          THEN IF getUserThrows(decodedToken.claims.username) THEN Forbidden
               ELSE IF SomeGroupIn(getUserGroups(decodedToken.claims.username), groups)
                    THEN CallNext
               ELSE Forbidden
     ELSE Forbidden

\* ------------------------------------------------ the revision src/index.js
\* authenticate: the lifetime and the idle timeout are the literals 60 * 60
Root_authenticateParsedRequest(username, password, t) ==
  IF ~authenticateUser(username, password) THEN AuthenticationFailed
  ELSE LET user == getUser(username)
           expirationDate == FloorSeconds(t) + HardCodedLifetime
           renewalExpirationDate == expirationDate + HardCodedLifetime
           token == encodeToken(IssuedClaims(username, user, expirationDate,
                                             renewalExpirationDate, Undefined),
                                config.jwtSecret, t)
       IN TokenResponse(token, username, user, expirationDate)

Root_renewTokenParsedRequest(authHeader, t, t2) ==
  LET decodedOldToken == decodeTokenHeader(authHeader, config.jwtSecret, TRUE, t)
  IN IF ~decodedOldToken.ok THEN ExpiredToken
     ELSE IF /\ decodedOldToken.claims.renewalExpirationDate # -1
             /\ decodedOldToken.claims.renewalExpirationDate * TicksPerSecond < t
          THEN ExpiredToken
     ELSE LET username == decodedOldToken.claims.username
          IN IF getUserThrows(username) THEN ExpiredToken
             ELSE LET user == getUser(username)
                      expirationDate == FloorSeconds(t2) + config.tokenLifetime
                      renewalExpirationDate == expirationDate + config.tokenIdleTimeout
                      token == encodeToken(IssuedClaims(username, user, expirationDate,
                                                        renewalExpirationDate, Undefined),
                                           config.jwtSecret, t2)
                  IN TokenResponse(token, username, user, expirationDate)

Root_requireAuthentication(authHeader, t) ==
  IF decodeTokenHeader(authHeader, config.jwtSecret, FALSE, t).ok THEN CallNext ELSE Forbidden

Root_allowUsers(users, authHeader, t) ==
  LET decodedToken == decodeTokenHeader(authHeader, config.jwtSecret, FALSE, t)
  IN IF ~decodedToken.ok THEN Forbidden
     ELSE IF IndexOf(users, decodedToken.claims.username) < 0 THEN Forbidden
     ELSE CallNext

\* for (let tokenGroup of tokenGroups) if (groups.indexOf(tokenGroup) >= 0) return next(),
\* where groups is the array Object.keys(fileContents.groups)
SomeGroupAmong(tokenGroups, groupKeys) ==
  \E i \in 1..Len(tokenGroups) : tokenGroups[i] \in groupKeys

\* `let groups = await this.authDB.getGroups()` shadows the parameter: the list
\* tested is the store's group list, not the caller's
Root_allowGroups(groupsParameter, authHeader, t) ==
  LET decodedToken == decodeTokenHeader(authHeader, config.jwtSecret, FALSE, t)
      groups == getGroups
  IN IF ~decodedToken.ok THEN Forbidden
     ELSE IF ~decodedToken.claims.hasGroups THEN Forbidden
     ELSE IF SomeGroupAmong(decodedToken.claims.groups, groups) THEN CallNext
     ELSE IF getUserThrows(decodedToken.claims.username) THEN Forbidden
     ELSE IF SomeGroupAmong(getUserGroups(decodedToken.claims.username), groups)
          THEN CallNext
     ELSE Forbidden

\* ------------------------------------------- FileAuthDB, mutating methods
\* Each gives the fileContents after the call and what the call returned:
\* "true", "false", "data" (the object writeJSONFile resolves to), "undefined",
\* or "throws".
Outcome(contents, ret) == [fileContents |-> contents, ret |-> ret]

WithUser(username, record) ==
  [fileContents EXCEPT !.users =
     [u \in (DOMAIN fileContents.users) \cup {username} |->
        IF u = username THEN record ELSE fileContents.users[u]]]

addUser_NoCheck(username, password, salt) ==
  Outcome(WithUser(username,
                   [username |-> username, password |-> hashPassword(password, salt),
                    groups |-> <<>>, email |-> "", firstName |-> "", lastName |-> ""]),
          "false")

addUser(username, password, salt) ==
  IF HasUser(username) THEN Outcome(fileContents, "false")
  ELSE Outcome(WithUser(username,
                        [username |-> username,
                         password |-> hashPassword(password, salt),
                         groups |-> <<>>, email |-> "", firstName |-> "",
                         lastName |-> ""]),
               "true")

deleteUser_KeepsRecord(username) ==
  IF ~HasUser(username) THEN Outcome(fileContents, "false")
  ELSE Outcome(fileContents, "true")

deleteUser(username) ==
  IF ~HasUser(username) THEN Outcome(fileContents, "false")
  ELSE Outcome([fileContents EXCEPT !.users =
                  [u \in (DOMAIN fileContents.users) \ {username} |-> fileContents.users[u]]],
               "true")

addGroup(group) ==
  IF group \in fileContents.groups THEN Outcome(fileContents, "false")
  ELSE Outcome([fileContents EXCEPT !.groups = @ \cup {group}], "true")

addUserToGroup_Never(username, group) ==
  IF ~HasUser(username) THEN Outcome(fileContents, "throws")
  ELSE Outcome(fileContents, "true")

addUserToGroup(username, group) ==
  IF ~HasUser(username) THEN Outcome(fileContents, "throws")
  \* users[username].groups is undefined for an inherited name: TypeError
  ELSE IF ~OwnUser(username) THEN Outcome(fileContents, "throws")
  ELSE IF IndexOf(fileContents.users[username].groups, group) < 0
       THEN Outcome([fileContents EXCEPT !.users[username].groups = Append(@, group)], "true")
  ELSE Outcome(fileContents, "true")

\* Array.prototype.splice(index, 1), index 0-based
Splice1(arr, index) == [i \in 1..(Len(arr) - 1) |-> IF i <= index THEN arr[i] ELSE arr[i + 1]]

removeUserFromGroup(username, group) ==
  IF ~HasUser(username) THEN Outcome(fileContents, "throws")
  ELSE IF ~OwnUser(username) THEN Outcome(fileContents, "throws")
  ELSE LET index == IndexOf(fileContents.users[username].groups, group)
       IN IF index >= 0
          THEN Outcome([fileContents EXCEPT !.users[username].groups = Splice1(@, index)],
                       "data")
          ELSE Outcome(fileContents, "data")

setUserEmail(username, email) ==
  IF ~HasUser(username) THEN Outcome(fileContents, "throws")
  \* the property is set on the inherited object, not in the document
  ELSE IF ~OwnUser(username) THEN Outcome(fileContents, "undefined")
  ELSE Outcome([fileContents EXCEPT !.users[username].email = email], "undefined")

\* `group in this.fileContents.group`: the document has the properties users
\* and groups, this.fileContents.group is undefined, and `in` throws a TypeError
deleteGroup(group) == Outcome(fileContents, "throws")

\* this.fileContents.users[username].groups = groups, on the document
\* `contents`: the array as given
setUserGroups_On(contents, username, groups) ==
  IF username \in DOMAIN contents.users
  THEN Outcome([contents EXCEPT !.users[username].groups = groups], "undefined")
  \* the property is set on the inherited object, not in the document
  ELSE IF username \in ObjectPrototypeNames THEN Outcome(contents, "undefined")
  ELSE Outcome(contents, "throws")

setUserGroups(username, groups) == setUserGroups_On(fileContents, username, groups)

\* return this.fileContents.users: the records as stored
getUsers == {fileContents.users[u] : u \in DOMAIN fileContents.users}

\* Object.assign(users[newUsername], users[username]); delete users[username]
renameUser(username, newUsername) ==
  IF ~HasUser(username) THEN Outcome(fileContents, "throws")
  \* Object.assign on the undefined users[newUsername]: TypeError
  ELSE IF ~HasUser(newUsername) THEN Outcome(fileContents, "throws")
  \* nothing of an inherited object is copied, nothing is deleted
  ELSE IF ~OwnUser(username) THEN Outcome(fileContents, "undefined")
  \* every field of the old record, username included, replaces the target's
  ELSE Outcome([fileContents EXCEPT !.users =
                  [u \in (DOMAIN fileContents.users) \ {username} |->
                     IF u = newUsername THEN fileContents.users[username]
                     ELSE fileContents.users[u]]],
               "undefined")

\* -------------------------------------------------------------- SQLAuthDB
\* The tables: the user rows by their unique username, the group names, and
\* the user_groups rows in insertion order.  foreignKeys: the database
\* enforces the references of user_groups.username and user_groups.groupname.
NoRows == [u \in {} |-> [password |-> NoHash, email |-> "", firstName |-> "", lastName |-> ""]]

\* the tables that User.sync, Group.sync and UserGroups.sync create
SQLTables == {"users", "groups", "user_groups"}

EmptySQL(foreignKeys) ==
  [foreignKeys |-> foreignKeys, tables |-> SQLTables, users |-> NoRows, groups |-> {},
   userGroups |-> <<>>]

\* a database on which initialize() has never run
FreshSQL(foreignKeys) == [EmptySQL(foreignKeys) EXCEPT !.tables = {}]

SQLOutcome(db, ret) == [sql |-> db, ret |-> ret]

\* this.User.findOne({where: {username: username}}) found a row
SQL_FindOne(username) == username \in DOMAIN sql.users

SQL_authenticateUser(username, password) ==
  SQL_FindOne(username) /\ verifyPassword(password, sql.users[username].password)

SQL_authenticateUserReturns(username, password) ==
  IF ~SQL_FindOne(username) THEN {"false"}
  ELSE verifyPasswordReturns(password, sql.users[username].password)

\* the groupname of every user_groups row of the user
SQL_getUserGroups(username) ==
  LET rows == SelectSeq(sql.userGroups, LAMBDA row : row.username = username)
  IN [i \in 1..Len(rows) |-> rows[i].groupname]

SQL_getGroups == sql.groups

\* User.create fails on the unique username; the catch returns false
SQL_addUser(username, password, salt) ==
  IF SQL_FindOne(username) THEN SQLOutcome(sql, "false")
  ELSE SQLOutcome([sql EXCEPT !.users =
                     [u \in (DOMAIN sql.users) \cup {username} |->
                        IF u = username
                        THEN [password |-> hashPassword(password, salt), email |-> "",
                              firstName |-> "", lastName |-> ""]
                        ELSE sql.users[u]]],
                  "true")

SQL_addGroup(group) ==
  IF group \in sql.groups THEN SQLOutcome(sql, "false")
  ELSE SQLOutcome([sql EXCEPT !.groups = @ \cup {group}], "true")

\* the composite unique key 'userGroup' (username, groupname)
SQL_HasMembership(username, group) ==
  \E i \in 1..Len(sql.userGroups) :
    sql.userGroups[i] = [username |-> username, groupname |-> group]

\* UserGroups.create fails on the unique key and on an enforced reference to
\* a missing user or group; the catch returns false
SQL_addUserToGroup(username, group) ==
  IF SQL_HasMembership(username, group) THEN SQLOutcome(sql, "false")
  ELSE IF sql.foreignKeys /\ (~SQL_FindOne(username) \/ group \notin sql.groups)
       THEN SQLOutcome(sql, "false")
  ELSE SQLOutcome([sql EXCEPT !.userGroups =
                     Append(@, [username |-> username, groupname |-> group])],
                  "true")

\* UserGroups.destroy({where: ...}); the method returns nothing
SQL_removeUserFromGroup(username, group) ==
  SQLOutcome([sql EXCEPT !.userGroups =
                SelectSeq(@, LAMBDA row : ~(row.username = username /\ row.groupname = group))],
             "undefined")

\* a user_groups row references the user
SQL_Referenced(username) ==
  \E i \in 1..Len(sql.userGroups) : sql.userGroups[i].username = username

\* User.destroy fails on an enforced reference from user_groups; the rows of
\* user_groups are not touched
SQL_deleteUser(username) ==
  IF ~SQL_FindOne(username) THEN SQLOutcome(sql, "false")
  ELSE IF sql.foreignKeys /\ SQL_Referenced(username) THEN SQLOutcome(sql, "throws")
  ELSE SQLOutcome([sql EXCEPT !.users =
                     [u \in (DOMAIN sql.users) \ {username} |-> sql.users[u]]],
                  "true")

\* `if (!groupname) return false` tests the argument; `this.Groups` is
\* undefined (the model is this.Group), so this.Groups.destroy throws
SQL_deleteGroup(groupname) ==
  IF groupname = "" THEN SQLOutcome(sql, "false") ELSE SQLOutcome(sql, "throws")

\* User.update({username: newUsername}) fails on the unique username and on
\* an enforced reference from user_groups to the old one; user_groups keeps
\* the old username
SQL_renameUser(username, newUsername) ==
  IF ~SQL_FindOne(username) THEN SQLOutcome(sql, "throws")
  ELSE IF newUsername = username THEN SQLOutcome(sql, "undefined")
  ELSE IF SQL_FindOne(newUsername) THEN SQLOutcome(sql, "throws")
  ELSE IF sql.foreignKeys /\ SQL_Referenced(username) THEN SQLOutcome(sql, "throws")
  ELSE SQLOutcome([sql EXCEPT !.users =
                     [u \in ((DOMAIN sql.users) \ {username}) \cup {newUsername} |->
                        IF u = newUsername THEN sql.users[username] ELSE sql.users[u]]],
                  "undefined")

\* for (let group of groups) await this.UserGroups.findOrCreate(...), from
\* the i-th group on: stops at the first create an enforced reference rejects
RECURSIVE SQL_FindOrCreateFrom(_, _, _, _)
SQL_FindOrCreateFrom(db, username, groups, i) ==
  IF i > Len(groups) THEN SQLOutcome(db, "undefined")
  ELSE LET row == [username |-> username, groupname |-> groups[i]]
       IN IF \E j \in 1..Len(db.userGroups) : db.userGroups[j] = row
          THEN SQL_FindOrCreateFrom(db, username, groups, i + 1)
          ELSE IF db.foreignKeys
                  /\ (username \notin DOMAIN db.users \/ groups[i] \notin db.groups)
               THEN SQLOutcome(db, "throws")
          ELSE SQL_FindOrCreateFrom([db EXCEPT !.userGroups = Append(@, row)],
                                    username, groups, i + 1)

\* the rows of the user for groups not in the list are destroyed, then the
\* missing ones are created, statement by statement
SQL_setUserGroups_On(db, username, groups) ==
  SQL_FindOrCreateFrom(
    [db EXCEPT !.userGroups =
       SelectSeq(@, LAMBDA row : ~(row.username = username
                                   /\ IndexOf(groups, row.groupname) < 0))],
    username, groups, 1)

SQL_setUserGroups(username, groups) == SQL_setUserGroups_On(sql, username, groups)

\* attributes: ['id', 'username', 'email', 'firstName', 'lastName'], then
\* user.groups = await this.getUserGroups(username); the row id is not modelled
SQL_getUser(username) ==
  [username |-> username,
   email |-> sql.users[username].email,
   firstName |-> sql.users[username].firstName,
   lastName |-> sql.users[username].lastName,
   groups |-> SQL_getUserGroups(username)]

SQL_getUsers == {SQL_getUser(u) : u \in DOMAIN sql.users}

\* ------------------------------------------------------------ the requests
\* the module the application requires: index.js at the repository root
\* (src/index.js here) or src/index.js (src/src/index.js here)
EntryRoot == "index.js"
EntrySrc == "src/index.js"

\* what an attacker without the secret can present: claims of its choice
\* under another key, or the held token with its claims altered
AttackerClaims ==
  [exp |-> HardCodedLifetime, renewalExpirationDate |-> HardCodedLifetime,
   username |-> "admin", groups |-> <<"admin", "ops">>, email |-> "", firstName |-> "",
   lastName |-> "", iss |-> "", iat |-> 0, hasGroups |-> TRUE]

Forged ==
  [wellFormed |-> TRUE, claims |-> AttackerClaims, sigKey |-> WrongSecret,
   sigOver |-> AttackerClaims]

Tampered(token) ==
  [token EXCEPT !.claims = [@ EXCEPT !.username = "admin", !.groups = <<"admin", "ops">>,
                                     !.exp = HardCodedLifetime,
                                     !.renewalExpirationDate = HardCodedLifetime]]

AuthHeaders ==
  {NoHeader, OnePartHeader("Bearer"), Header("Bearer", Forged)}
  \cup (IF held = NoToken THEN {}
        ELSE {Header("Basic", held), Header("Bearer", held), Header("bearer", held),
              Header("Bearer", Tampered(held))})

UserLists == {<<>>, <<"admin">>, <<"bob", "admin">>}
GroupLists == {<<>>, <<"admin">>, <<"ops">>, <<"ops", "admin">>}

NoOp ==
  [op |-> "none", username |-> Undefined, arg |-> Undefined, list |-> <<>>,
   authHeader |-> NoHeader, t |-> 0, t2 |-> 0, res |-> NoResponse, ret |-> ""]

\* a users / groups document with nothing in it (after FileAuthDB.initialize)
EmptyFile ==
  [users |-> [u \in {} |->
                [username |-> "", password |-> NoHash, groups |-> <<>>, email |-> "",
                 firstName |-> "", lastName |-> ""]],
   groups |-> {}]

\* the last call of a store method through its management route: what the
\* method returned, what the route answered, and the store before the call
NoCall ==
  [op |-> "none", username |-> Undefined, arg |-> Undefined, ret |-> "",
   status |-> 0, success |-> "", forwarded |-> FALSE, body |-> {}, list |-> <<>>,
   before |-> [fileContents |-> EmptyFile, sql |-> EmptySQL(FALSE)]]

\* the asynchronous calls in progress, each at one of its awaits
Procs == {1, 2}

\* a call in progress; at its writeJSONFile, the document as JSON.stringify
\* serialised it, and whether another fs.writeFile of the file was under way
\* during its own
NoProc ==
  [op |-> "none", pc |-> "idle", username |-> Undefined, password |-> Undefined,
   group |-> Undefined, ret |-> "", before |-> EmptyFile, snapshot |-> EmptyFile,
   overlapped |-> FALSE]

NoProcs == [p \in Procs |-> NoProc]

\* the file after fs.writeFile wrote JSON.stringify(data) completely; torn
\* when it holds a mixture that is nobody's serialised document
OnDisk(data) == [contents |-> data, torn |-> FALSE]

\* the client keeps the token of a successful authenticate / renew-token
Keep(res) == IF res.status = 200 THEN res.body.token ELSE held

Init ==
  /\ entry \in {EntryRoot, EntrySrc}
  /\ config \in [jwtSecret : {Secret}, tokenLifetime : Lifetimes,
                 tokenIdleTimeout : IdleTimeouts, issuer : {""},
                 userListVisibility : {Undefined}, groupListVisibility : {Undefined}]
  \* a store file holding the default user in the default group
  /\ fileContents =
       [users |-> [u \in {"admin"} |->
                     [username |-> "admin", password |-> hashPassword("admin", "s1"),
                      groups |-> <<"admin">>, email |-> "", firstName |-> "",
                      lastName |-> ""]],
        groups |-> {"admin"}]
  /\ now = 0
  /\ held = NoToken
  /\ last = NoOp
  /\ nMut = 0
  /\ backend = "file"
  /\ sql = EmptySQL(FALSE)
  /\ call = NoCall
  /\ procs = NoProcs
  /\ disk = OnDisk(fileContents)

\* no request is being answered
Idle == last = NoOp

\* the response of the last call is delivered
Respond ==
  /\ ~Idle
  /\ last' = NoOp
  /\ UNCHANGED <<entry, config, fileContents, now, held, nMut, others>>

Tick ==
  /\ Idle
  /\ now < MaxTime
  /\ now' = now + 1
  /\ UNCHANGED <<entry, config, fileContents, held, last, nMut, others>>

Authenticate ==
  /\ Idle
  /\ \E username \in Usernames, password \in Passwords :
    LET res == IF entry = EntrySrc
               THEN authenticateParsedRequest(username, password, now)
               ELSE Root_authenticateParsedRequest(username, password, now)
    IN /\ last' = [NoOp EXCEPT !.op = "authenticate", !.username = username,
                               !.arg = password, !.t = now, !.t2 = now, !.res = res]
       /\ held' = Keep(res)
       /\ UNCHANGED <<entry, config, fileContents, now, nMut, others>>

RenewToken ==
  /\ Idle
  /\ \E authHeader \in AuthHeaders, elapsed \in 0..1 :
    /\ now + elapsed <= MaxTime
    /\ LET res == IF entry = EntrySrc
                  THEN renewTokenParsedRequest(authHeader, now, now + elapsed)
                  ELSE Root_renewTokenParsedRequest(authHeader, now, now + elapsed)
       IN /\ last' = [NoOp EXCEPT !.op = "renewToken", !.authHeader = authHeader,
                                  !.t = now, !.t2 = now + elapsed, !.res = res]
          /\ held' = Keep(res)
          /\ now' = now + elapsed
          /\ UNCHANGED <<entry, config, fileContents, nMut, others>>

RequireAuthentication ==
  /\ Idle
  /\ \E authHeader \in AuthHeaders :
    LET res == IF entry = EntrySrc
               THEN requireAuthentication(config.jwtSecret, authHeader, now)
               ELSE Root_requireAuthentication(authHeader, now)
    IN /\ last' = [NoOp EXCEPT !.op = "requireAuthentication", !.authHeader = authHeader,
                               !.t = now, !.t2 = now, !.res = res]
       /\ UNCHANGED <<entry, config, fileContents, now, held, nMut, others>>

AllowUsers ==
  /\ Idle
  /\ \E users \in UserLists, authHeader \in AuthHeaders :
    LET res == IF entry = EntrySrc
               THEN allowUsers(users, config.jwtSecret, authHeader, now)
               ELSE Root_allowUsers(users, authHeader, now)
    IN /\ last' = [NoOp EXCEPT !.op = "allowUsers", !.list = users,
                               !.authHeader = authHeader, !.t = now, !.t2 = now,
                               !.res = res]
       /\ UNCHANGED <<entry, config, fileContents, now, held, nMut, others>>

AllowGroups ==
  /\ Idle
  /\ \E groups \in GroupLists, authHeader \in AuthHeaders :
    LET res == IF entry = EntrySrc
               THEN allowGroups(groups, config.jwtSecret, authHeader, now)
               ELSE Root_allowGroups(groups, authHeader, now)
    IN /\ last' = [NoOp EXCEPT !.op = "allowGroups", !.list = groups,
                               !.authHeader = authHeader, !.t = now, !.t2 = now,
                               !.res = res]
       /\ UNCHANGED <<entry, config, fileContents, now, held, nMut, others>>

\* a call of a store method (by a management route or by the embedding application)
StoreCall(op, username, arg, outcome) ==
  /\ Idle
  /\ nMut + (IF outcome.fileContents = fileContents THEN 0 ELSE 1) <= MaxMutations
  /\ fileContents' = outcome.fileContents
  /\ nMut' = nMut + (IF outcome.fileContents = fileContents THEN 0 ELSE 1)
  /\ last' = [NoOp EXCEPT !.op = op, !.username = username, !.arg = arg, !.t = now,
                          !.t2 = now, !.ret = outcome.ret]
  /\ disk' = OnDisk(outcome.fileContents)
  /\ UNCHANGED <<entry, config, now, held, backend, sql, call, procs>>

AddUser ==
  \E username \in Usernames, password \in Passwords, salt \in Salts :
    StoreCall("addUser", username, password, addUser(username, password, salt))

DeleteUser ==
  \E username \in Usernames : StoreCall("deleteUser", username, Undefined, deleteUser(username))

AddGroup ==
  \E group \in GroupNames : StoreCall("addGroup", Undefined, group, addGroup(group))

AddUserToGroup ==
  \E username \in Usernames, group \in GroupNames :
    StoreCall("addUserToGroup", username, group, addUserToGroup(username, group))

RemoveUserFromGroup ==
  \E username \in Usernames, group \in GroupNames :
    StoreCall("removeUserFromGroup", username, group, removeUserFromGroup(username, group))

SetUserEmail ==
  \E username \in Usernames, email \in Emails :
    StoreCall("setUserEmail", username, email, setUserEmail(username, email))

Next ==
  \/ Tick
  \/ Authenticate
  \/ RenewToken
  \/ RequireAuthentication
  \/ AllowUsers
  \/ AllowGroups
  \/ AddUser
  \/ DeleteUser
  \/ AddGroup
  \/ AddUserToGroup
  \/ RemoveUserFromGroup
  \/ SetUserEmail
  \/ Respond

Spec == Init /\ [][Next]_vars

\* ------------------------------------------------ the gates on any token
\* The gates verify whatever the configured secret signed: the tokens of
\* another holder of the secret, with or without a groups claim, for any
\* subject and expiry.
SignedTokens ==
  {encodeToken([NoClaims EXCEPT !.exp = exp, !.renewalExpirationDate = exp,
                                !.username = username, !.groups = groups,
                                !.hasGroups = hasGroups, !.iss = ""],
               Secret, 0) :
     exp \in 1..2, username \in Usernames,
     groups \in {<<>>, <<"admin">>, <<"ops">>}, hasGroups \in BOOLEAN}

GateInit ==
  /\ entry \in {EntryRoot, EntrySrc}
  /\ config = [jwtSecret |-> Secret, tokenLifetime |-> 1, tokenIdleTimeout |-> 1,
               issuer |-> "", userListVisibility |-> Undefined,
               groupListVisibility |-> Undefined]
  /\ fileContents =
       [users |-> [u \in {"admin"} |->
                     [username |-> "admin", password |-> hashPassword("admin", "s1"),
                      groups |-> <<"admin">>, email |-> "", firstName |-> "",
                      lastName |-> ""]],
        groups |-> {"admin"}]
  /\ now = 0
  \* a token without the groups claim has no groups to list
  /\ held \in {tok \in SignedTokens : tok.claims.hasGroups \/ tok.claims.groups = <<>>}
  /\ last = NoOp
  /\ nMut = 0
  /\ backend = "file"
  /\ sql = EmptySQL(FALSE)
  /\ call = NoCall
  /\ procs = NoProcs
  /\ disk = OnDisk(fileContents)

GateNext ==
  \/ Tick
  \/ RequireAuthentication
  \/ AllowUsers
  \/ AllowGroups
  \/ Respond

GateSpec == GateInit /\ [][GateNext]_vars

\* ------------------------------------------- the store behind its routes
\* the document and the tables holding the default user in the default group
DefaultFile ==
  [users |-> [u \in {"admin"} |->
                [username |-> "admin", password |-> hashPassword("admin", "s1"),
                 groups |-> <<"admin">>, email |-> "", firstName |-> "", lastName |-> ""]],
   groups |-> {"admin"}]

DefaultSQL(foreignKeys) ==
  [foreignKeys |-> foreignKeys, tables |-> SQLTables,
   users |-> [u \in {"admin"} |->
                [password |-> hashPassword("admin", "s1"), email |-> "",
                 firstName |-> "", lastName |-> ""]],
   groups |-> {"admin"},
   userGroups |-> <<[username |-> "admin", groupname |-> "admin"]>>]

\* usernames a request can carry: any string, the inherited names included
StoreUsernames == Usernames \cup ObjectPrototypeNames

StoreInit ==
  /\ entry = EntrySrc
  /\ config = [jwtSecret |-> Secret, tokenLifetime |-> 1, tokenIdleTimeout |-> 1,
               issuer |-> "", userListVisibility |-> Undefined,
               groupListVisibility |-> Undefined]
  /\ backend \in {"file", "sql"}
  /\ IF backend = "file"
     THEN fileContents \in {EmptyFile, DefaultFile} /\ sql = EmptySQL(FALSE)
     ELSE /\ fileContents = EmptyFile
          /\ sql \in {EmptySQL(fk) : fk \in BOOLEAN} \cup {DefaultSQL(fk) : fk \in BOOLEAN}
  /\ now = 0
  /\ held = NoToken
  /\ last = NoOp
  /\ nMut = 0
  /\ call = NoCall
  /\ procs = NoProcs
  /\ disk = OnDisk(fileContents)

\* success ? 200 : 409
Truthy(ret) == ret \in {"true", "data"}

\* res.status(success ? 200 : 409).json({success: success}); a throw of the
\* store is caught by the route (success = false) or forwarded by wrapAsync
\* to next(err)
ManagementResponse(ret, caught) ==
  IF ret = "throws"
  THEN IF caught THEN [status |-> 409, success |-> "false", forwarded |-> FALSE]
       ELSE [status |-> 0, success |-> "", forwarded |-> TRUE]
  ELSE [status |-> IF Truthy(ret) THEN 200 ELSE 409, success |-> ret, forwarded |-> FALSE]

ManagementCallWith(op, username, arg, list, fileOutcome, sqlOutcome, caught) ==
  LET ret == IF backend = "file" THEN fileOutcome.ret ELSE sqlOutcome.ret
      fileAfter == IF backend = "file" THEN fileOutcome.fileContents ELSE fileContents
      sqlAfter == IF backend = "file" THEN sql ELSE sqlOutcome.sql
      mutated == IF fileAfter # fileContents \/ sqlAfter # sql THEN 1 ELSE 0
      answer == ManagementResponse(ret, caught)
  IN /\ nMut + mutated <= MaxMutations
     /\ fileContents' = fileAfter
     /\ sql' = sqlAfter
     /\ nMut' = nMut + mutated
     /\ call' = [op |-> op, username |-> username, arg |-> arg, ret |-> ret,
                 status |-> answer.status, success |-> answer.success,
                 forwarded |-> answer.forwarded, body |-> {}, list |-> list,
                 before |-> [fileContents |-> fileContents, sql |-> sql]]
     /\ disk' = OnDisk(fileAfter)
     /\ UNCHANGED <<entry, config, now, held, last, backend, procs>>

ManagementCall(op, username, arg, fileOutcome, sqlOutcome, caught) ==
  ManagementCallWith(op, username, arg, <<>>, fileOutcome, sqlOutcome, caught)

\* authDB.authenticateUser(username, password), as the issuer calls it
Store_AuthenticateUser ==
  \E username \in StoreUsernames, password \in Passwords :
    \E ret \in (IF backend = "file" THEN authenticateUserReturns(username, password)
                 ELSE SQL_authenticateUserReturns(username, password)) :
      /\ call' = [NoCall EXCEPT !.op = "authenticateUser", !.username = username,
                                !.arg = password, !.ret = ret,
                                !.before = [fileContents |-> fileContents, sql |-> sql]]
      /\ UNCHANGED <<entry, config, fileContents, now, held, last, nMut, backend, sql, procs, disk>>

Store_AddUser ==
  \E username \in StoreUsernames, password \in Passwords, salt \in Salts :
    ManagementCall("addUser", username, password, addUser(username, password, salt),
                   SQL_addUser(username, password, salt), TRUE)

Store_AddGroup ==
  \E group \in GroupNames :
    ManagementCall("addGroup", Undefined, group, addGroup(group), SQL_addGroup(group), FALSE)

Store_AddUserToGroup ==
  \E username \in StoreUsernames, group \in GroupNames :
    ManagementCall("addUserToGroup", username, group, addUserToGroup(username, group),
                   SQL_addUserToGroup(username, group), FALSE)

Store_RemoveUserFromGroup ==
  \E username \in StoreUsernames, group \in GroupNames :
    ManagementCall("removeUserFromGroup", username, group,
                   removeUserFromGroup(username, group),
                   SQL_removeUserFromGroup(username, group), FALSE)

Store_DeleteUser ==
  \E username \in StoreUsernames :
    ManagementCall("deleteUser", username, Undefined, deleteUser(username),
                   SQL_deleteUser(username), TRUE)

Store_DeleteGroup ==
  \E group \in GroupNames :
    ManagementCall("deleteGroup", Undefined, group, deleteGroup(group),
                   SQL_deleteGroup(group), FALSE)

\* the groups a body of updateUser carries: none (undefined), or an array as
\* the client wrote it
NoGroups == <<Undefined>>
BodyGroups == {NoGroups, <<>>, <<"ops">>, <<"ops", "ops">>}

\* renameUser when the body's username differs, then setUserGroups on the
\* new name when the body has groups; the first throw ends the handler.  The
\* body has no firstName, lastName or email.
updateUser_File(username, newUsername, groups) ==
  LET renamed == IF username # newUsername THEN renameUser(username, newUsername)
                 ELSE Outcome(fileContents, "undefined")
  IN IF renamed.ret = "throws" \/ groups = NoGroups THEN renamed
     ELSE setUserGroups_On(renamed.fileContents, newUsername, groups)

updateUser_SQL(username, newUsername, groups) ==
  LET renamed == IF username # newUsername THEN SQL_renameUser(username, newUsername)
                 ELSE SQLOutcome(sql, "undefined")
  IN IF renamed.ret = "throws" \/ groups = NoGroups THEN renamed
     ELSE SQL_setUserGroups_On(renamed.sql, newUsername, groups)

\* every outcome but a caught throw leaves success = true
Store_UpdateUser ==
  \E username \in StoreUsernames, newUsername \in StoreUsernames, groups \in BodyGroups :
    LET fileOutcome == updateUser_File(username, newUsername, groups)
        sqlOutcome == updateUser_SQL(username, newUsername, groups)
        Succeeds(outcome) == IF outcome.ret = "throws" THEN "throws" ELSE "true"
    IN ManagementCallWith("updateUser", username, newUsername, groups,
                          Outcome(fileOutcome.fileContents, Succeeds(fileOutcome)),
                          SQLOutcome(sqlOutcome.sql, Succeeds(sqlOutcome)), TRUE)

\* a read of the store behind its route: the body is what the store returned,
\* {} when it threw
ReadCall(op, username, throws, body) ==
  /\ call' = [NoCall EXCEPT !.op = op, !.username = username,
                            !.ret = IF throws THEN "throws" ELSE "data",
                            !.status = IF throws THEN 409 ELSE 200,
                            !.body = IF throws THEN {} ELSE body,
                            !.before = [fileContents |-> fileContents, sql |-> sql]]
  /\ UNCHANGED <<entry, config, fileContents, now, held, last, nMut, backend, sql, procs, disk>>

Store_GetUsers ==
  ReadCall("getUsers", Undefined, FALSE,
           IF backend = "file" THEN getUsers ELSE SQL_getUsers)

\* users[username] of an inherited name is a function object: its email,
\* firstName, lastName and groups are undefined; user.get() on no row throws
Store_GetUser ==
  \E username \in StoreUsernames :
    IF backend = "file"
    THEN ReadCall("getUser", username, getUserThrows(username),
                  IF OwnUser(username) THEN {getUser(username)}
                  ELSE {[username |-> username, email |-> Undefined,
                         firstName |-> Undefined, lastName |-> Undefined,
                         groups |-> NoGroups]})
    ELSE ReadCall("getUser", username, ~SQL_FindOne(username),
                  IF SQL_FindOne(username) THEN {SQL_getUser(username)} ELSE {})

StoreNext ==
  \/ Store_AuthenticateUser
  \/ Store_AddUser
  \/ Store_DeleteUser
  \/ Store_AddGroup
  \/ Store_DeleteGroup
  \/ Store_AddUserToGroup
  \/ Store_RemoveUserFromGroup
  \/ Store_UpdateUser
  \/ Store_GetUsers
  \/ Store_GetUser

StoreSpec == StoreInit /\ [][StoreNext]_vars

\* --------------------------------- FileAuthDB calls interleaving at awaits
\* An async method runs to its next await without interruption; other calls
\* run while it waits.  addUser waits for hashPassword, then for writeJSONFile.
ConcurrentInit ==
  /\ entry = EntrySrc
  /\ config = [jwtSecret |-> Secret, tokenLifetime |-> 1, tokenIdleTimeout |-> 1,
               issuer |-> "", userListVisibility |-> Undefined,
               groupListVisibility |-> Undefined]
  /\ backend = "file"
  /\ fileContents \in {EmptyFile, DefaultFile}
  /\ sql = EmptySQL(FALSE)
  /\ now = 0
  /\ held = NoToken
  /\ last = NoOp
  /\ nMut = 0
  /\ call = NoCall
  /\ procs = NoProcs
  /\ disk = OnDisk(fileContents)

\* addUser up to `await PasswordHandler.hashPassword(password)`
AddUser_Call(p) ==
  /\ procs[p].pc = "idle"
  /\ \E username \in Usernames, password \in Passwords :
       procs' = [procs EXCEPT ![p] =
                   [NoProc EXCEPT !.op = "addUser", !.username = username,
                                  !.password = password,
                                  !.pc = IF HasUser(username) THEN "done" ELSE "hashing",
                                  !.ret = IF HasUser(username) THEN "false" ELSE "",
                                  !.before = fileContents]]
  /\ UNCHANGED <<entry, config, fileContents, now, held, last, nMut, backend, sql, call, disk>>

\* a writeJSONFile of the file has not called back yet
Writing(p) == procs[p].pc = "writing"

\* ... from the hash to `await writeJSONFile(...)`: the record is assigned,
\* the document is serialised and fs.writeFile is started
AddUser_Assign(p) ==
  /\ procs[p].pc = "hashing"
  /\ \E salt \in Salts :
       fileContents' =
         WithUser(procs[p].username,
                  [username |-> procs[p].username,
                   password |-> hashPassword(procs[p].password, salt),
                   groups |-> <<>>, email |-> "", firstName |-> "", lastName |-> ""])
  /\ procs' = [q \in Procs |->
                IF q = p
                THEN [procs[q] EXCEPT !.pc = "writing", !.snapshot = fileContents',
                                      !.overlapped = \E r \in Procs : Writing(r)]
                ELSE IF Writing(q) THEN [procs[q] EXCEPT !.overlapped = TRUE]
                ELSE procs[q]]
  /\ UNCHANGED <<entry, config, now, held, last, nMut, backend, sql, call, disk>>

\* what a write leaves in the file: its own data, or a mixture when another
\* fs.writeFile of the same file ran during it
Written(data, overlapped) ==
  {OnDisk(data)} \cup (IF overlapped THEN {[contents |-> data, torn |-> TRUE]} ELSE {})

\* ... and `return true` once fs.writeFile called back without an error;
\* the writes under way call back in any order
AddUser_Return(p) ==
  /\ Writing(p)
  /\ disk' \in Written(procs[p].snapshot, procs[p].overlapped)
  /\ procs' = [procs EXCEPT ![p].pc = "done", ![p].ret = "true"]
  /\ UNCHANGED <<entry, config, fileContents, now, held, last, nMut, backend, sql, call>>

\* ... or fs.writeFile called back with an error: reject(err) and addUser
\* throws, after the record was assigned.  The file is as it was or partly
\* written.
AddUser_WriteFails(p) ==
  /\ Writing(p)
  /\ disk' \in {disk, [disk EXCEPT !.torn = TRUE]}
  /\ procs' = [procs EXCEPT ![p].pc = "done", ![p].ret = "throws"]
  /\ UNCHANGED <<entry, config, fileContents, now, held, last, nMut, backend, sql, call>>

\* addUserToGroup changes the document before its only await, the
\* writeJSONFile, which here calls back before any other step
Concurrent_AddUserToGroup ==
  \E username \in Usernames, group \in GroupNames :
    LET outcome == addUserToGroup(username, group)
        mutated == IF outcome.fileContents # fileContents THEN 1 ELSE 0
    IN /\ nMut + mutated <= MaxMutations
       /\ fileContents' = outcome.fileContents
       /\ nMut' = nMut + mutated
       /\ call' = [NoCall EXCEPT !.op = "addUserToGroup", !.username = username,
                                 !.arg = group, !.ret = outcome.ret,
                                 !.before = [fileContents |-> fileContents, sql |-> sql]]
       /\ IF outcome.ret = "throws"
          THEN UNCHANGED <<disk, procs>>
          ELSE /\ disk' \in Written(outcome.fileContents, \E r \in Procs : Writing(r))
               /\ procs' = [q \in Procs |->
                             IF Writing(q) THEN [procs[q] EXCEPT !.overlapped = TRUE]
                             ELSE procs[q]]
       /\ UNCHANGED <<entry, config, now, held, last, backend, sql>>

ConcurrentNext ==
  \/ \E p \in Procs : AddUser_Call(p)
  \/ \E p \in Procs : AddUser_Assign(p)
  \/ \E p \in Procs : AddUser_Return(p)
  \/ \E p \in Procs : AddUser_WriteFails(p)
  \/ Concurrent_AddUserToGroup

ConcurrentSpec == ConcurrentInit /\ [][ConcurrentNext]_vars

\* ------------------------------------------------------------ initializeDB
\* users.length of what getUsers resolves to: the latest FileAuthDB.getUsers
\* gives the users object, which has no length; the first FileAuthDB gives the
\* array of its keys and SQLAuthDB.getUsers an array of rows
getUsers_Length ==
  IF backend = "file"
  \* src/index.js loads ./src/FileAuthDB, whose getUsers gives Object.keys(users)
  THEN IF entry = EntryRoot
       THEN [defined |-> TRUE, value |-> Cardinality(DOMAIN fileContents.users)]
       ELSE [defined |-> FALSE, value |-> 0]
  ELSE [defined |-> TRUE, value |-> Cardinality(DOMAIN sql.users)]

\* users.length <= 0 (undefined <= 0 is false)
NoUsersFound_Always == TRUE

NoUsersFound == getUsers_Length.defined /\ getUsers_Length.value <= 0

\* groups.indexOf(defaultGroup) < 0
GroupMissing(defaultGroup) ==
  defaultGroup \notin (IF backend = "file" THEN getGroups ELSE SQL_getGroups)

\* the run of initializeDB
Boot == 1

BootInit ==
  /\ entry \in {EntryRoot, EntrySrc}
  /\ config = [jwtSecret |-> Secret, tokenLifetime |-> 1, tokenIdleTimeout |-> 1,
               issuer |-> "", userListVisibility |-> Undefined,
               groupListVisibility |-> Undefined]
  \* src/index.js has the file store only
  /\ backend \in (IF entry = EntryRoot THEN {"file"} ELSE {"file", "sql"})
  /\ IF backend = "file"
     THEN /\ fileContents \in {EmptyFile, DefaultFile,
                                [EmptyFile EXCEPT !.groups = {"admin"}]}
          /\ sql = EmptySQL(FALSE)
     ELSE /\ fileContents = EmptyFile
          /\ sql \in UNION {{EmptySQL(fk), DefaultSQL(fk),
                              [EmptySQL(fk) EXCEPT !.groups = {"admin"}]} : fk \in BOOLEAN}
  /\ now = 0
  /\ held = NoToken
  /\ last = NoOp
  /\ nMut = 0
  /\ call = NoCall
  /\ procs = NoProcs
  /\ disk = OnDisk(fileContents)

\* a step of the run: the store after it, and where the run continues
BootStep(pc, fileAfter, sqlAfter) ==
  /\ fileContents' = (IF backend = "file" THEN fileAfter ELSE fileContents)
  /\ sql' = (IF backend = "file" THEN sql ELSE sqlAfter)
  /\ procs' = [procs EXCEPT ![Boot].pc = pc]
  /\ disk' = OnDisk(fileContents')
  /\ UNCHANGED <<entry, config, now, held, last, nMut, backend, call>>

\* this.authDB.initialize(); the defaults are read; await this.authDB.getUsers()
Boot_Start ==
  /\ procs[Boot].pc = "idle"
  /\ \E defaultUsername \in Usernames, defaultPassword \in Passwords,
        defaultGroup \in GroupNames :
       procs' = [procs EXCEPT ![Boot] =
                   [NoProc EXCEPT !.op = "initializeDB", !.pc = "getUsers",
                                  !.username = defaultUsername,
                                  !.password = defaultPassword, !.group = defaultGroup]]
  /\ call' = [NoCall EXCEPT !.op = "initializeDB",
                            !.before = [fileContents |-> fileContents, sql |-> sql]]
  /\ UNCHANGED <<entry, config, fileContents, now, held, last, nMut, backend, sql, disk>>

\* if (users.length <= 0) { await this.authDB.addUser(...)
Boot_GetUsers ==
  /\ procs[Boot].pc = "getUsers"
  /\ BootStep(IF NoUsersFound THEN "addUser" ELSE "done", fileContents, sql)

\* ... let groups = await this.authDB.getGroups()
Boot_AddUser ==
  /\ procs[Boot].pc = "addUser"
  /\ \E salt \in Salts :
       BootStep("getGroups",
                addUser(procs[Boot].username, procs[Boot].password, salt).fileContents,
                SQL_addUser(procs[Boot].username, procs[Boot].password, salt).sql)

\* ... if (groups.indexOf(defaultGroup) < 0) await this.authDB.addGroup(defaultGroup)
Boot_GetGroups ==
  /\ procs[Boot].pc = "getGroups"
  /\ BootStep(IF GroupMissing(procs[Boot].group) THEN "addGroup" ELSE "addUserToGroup",
              fileContents, sql)

Boot_AddGroup ==
  /\ procs[Boot].pc = "addGroup"
  /\ BootStep("addUserToGroup", addGroup(procs[Boot].group).fileContents,
              SQL_addGroup(procs[Boot].group).sql)

\* ... await this.authDB.addUserToGroup(defaultUsername, defaultGroup) }
Boot_AddUserToGroup ==
  /\ procs[Boot].pc = "addUserToGroup"
  /\ BootStep("done",
              addUserToGroup(procs[Boot].username, procs[Boot].group).fileContents,
              SQL_addUserToGroup(procs[Boot].username, procs[Boot].group).sql)

BootNext ==
  \/ Boot_Start
  \/ Boot_GetUsers
  \/ Boot_AddUser
  \/ Boot_GetGroups
  \/ Boot_AddGroup
  \/ Boot_AddUserToGroup

BootSpec == BootInit /\ [][BootNext]_vars

\* ================================================================ claims
\* What the claims say of a request, stated apart from the handlers' code.

GateOps == {"requireAuthentication", "allowUsers", "allowGroups"}

\* the header is `Bearer <token>` (scheme in any letter case)
IsBearer(authHeader) ==
  authHeader.present /\ authHeader.nparts >= 2 /\ authHeader.scheme \in {"Bearer", "bearer"}

\* the presented token is a JWS whose signature is the configured secret's over its claims
SignatureVerifies(authHeader) ==
  /\ IsBearer(authHeader)
  /\ authHeader.token.wellFormed
  /\ authHeader.token.sigKey = config.jwtSecret
  /\ authHeader.token.sigOver = authHeader.token.claims

\* ... and its exp is in the future at clock reading t
ValidToken(authHeader, t) ==
  SignatureVerifies(authHeader) /\ FloorSeconds(t) < authHeader.token.claims.exp

Presented == last.authHeader.token.claims

Elements(arr) == {arr[i] : i \in 1..Len(arr)}

\* the subject's current membership in the store (none when the subject is gone)
StoreGroupsOf(username) ==
  IF username \in DOMAIN fileContents.users
  THEN Elements(fileContents.users[username].groups)
  ELSE {}

\* C1: allowGroups(allowedGroups) permits a request with a valid token only if
\* a group of the token's groups claim, or of the subject's current store
\* membership, is in allowedGroups; otherwise the request is denied with
\* Forbidden, whatever groups exist in the store.
C1_AllowGroupsOnlyListed ==
  (last.op = "allowGroups" /\ ValidToken(last.authHeader, last.t))
    => /\ last.res.next =>
            (Elements(Presented.groups) \cup StoreGroupsOf(Presented.username))
              \cap Elements(last.list) # {}
       /\ ((Elements(Presented.groups) \cup StoreGroupsOf(Presented.username))
              \cap Elements(last.list) = {}) => last.res = Forbidden

\* C1, the static gate of src/src/index.js alone
C1_StaticGateOnlyListed == (entry = EntrySrc) => C1_AllowGroupsOnlyListed

\* C2: a token issued before the subject joined group B still passes
\* allowGroups(['B']) through the store fallback: a valid token whose subject
\* is, in the store, a member of an allowed group is permitted.
C2_StalenessTolerance ==
  (/\ entry = EntrySrc
   /\ last.op = "allowGroups"
   /\ ValidToken(last.authHeader, last.t)
   /\ Presented.hasGroups
   /\ StoreGroupsOf(Presented.username) \cap Elements(last.list) # {})
    => last.res.next

\* C3: every gate fails closed: next is called only for a Bearer token whose
\* signature verifies under the configured secret and whose exp is in the
\* future; any other request gets the Forbidden response.
C3_GatesFailClosed ==
  (last.op \in GateOps)
    => /\ last.res.next => ValidToken(last.authHeader, last.t)
       /\ ~ValidToken(last.authHeader, last.t) => last.res = Forbidden

C3_Witness ==
  /\ last.op \in GateOps
  /\ SignatureVerifies(last.authHeader)
  /\ FloorSeconds(last.t) >= Presented.exp
  /\ last.res = Forbidden

\* C4: allowUsers(allowedUsers) permits a request with a valid token iff the
\* token's username is an element of allowedUsers.
C4_AllowUsersIff ==
  (last.op = "allowUsers" /\ ValidToken(last.authHeader, last.t))
    => /\ last.res.next <=> (Presented.username \in Elements(last.list))
       /\ ~last.res.next => last.res = Forbidden

C4_Witness ==
  /\ last.op = "allowUsers"
  /\ ValidToken(last.authHeader, last.t)
  /\ Presented.username = "admin"
  /\ last.list = <<"bob", "admin">>
  /\ last.res.next

Issued == last.res.body.token.claims

\* a renew-token request that was answered with a new token
Renewed == last.op = "renewToken" /\ last.res.status = 200

\* C5: a successful authenticate at time now issues a token with
\* exp = now + tokenLifetime and renewalExpirationDate = exp + tokenIdleTimeout,
\* for every configured tokenLifetime and tokenIdleTimeout.
C5_IssuedExpiry ==
  (last.op = "authenticate" /\ last.res.status = 200)
    => /\ Issued.exp = FloorSeconds(last.t) + config.tokenLifetime
       /\ Issued.renewalExpirationDate = Issued.exp + config.tokenIdleTimeout

\* C5, the handler of src/src/index.js alone
C5_SrcIssuedExpiry == (entry = EntrySrc) => C5_IssuedExpiry

\* C6: a renew request at a time t past the presented token's renewal
\* deadline fails, whatever the validity of its signature: no token is issued.
C6_RenewalPastDeadlineFails ==
  (/\ last.op = "renewToken"
   /\ SignatureVerifies(last.authHeader)
   /\ last.t > Presented.renewalExpirationDate * TicksPerSecond)
    => /\ last.res = ExpiredToken
       /\ last.res.body.token = NoToken

C6_Witness ==
  /\ last.op = "renewToken"
  /\ SignatureVerifies(last.authHeader)
  /\ last.t > Presented.renewalExpirationDate * TicksPerSecond
  /\ FloorSeconds(last.t) = Presented.renewalExpirationDate
  /\ Presented.username \in DOMAIN fileContents.users
  /\ last.res.status = 401

\* C7: a renew request presenting a correctly signed token at a time t with
\* exp < t <= renewalDeadline, for a user still in the store, succeeds and
\* returns a new token; the request carries no password.
C7_RenewExpiredInsideWindow ==
  (/\ last.op = "renewToken"
   /\ SignatureVerifies(last.authHeader)
   /\ Presented.exp * TicksPerSecond < last.t
   /\ last.t <= Presented.renewalExpirationDate * TicksPerSecond
   /\ Presented.username \in DOMAIN fileContents.users)
    => /\ last.res.status = 200
       /\ last.res.body.success
       /\ last.res.body.token.wellFormed
       /\ last.res.body.token.sigKey = config.jwtSecret
       /\ last.res.body.token.sigOver = Issued
       /\ Issued.username = Presented.username
       /\ last.arg = Undefined

C7_Witness ==
  /\ Renewed
  /\ SignatureVerifies(last.authHeader)
  /\ Presented.exp * TicksPerSecond < last.t
  /\ last.t <= Presented.renewalExpirationDate * TicksPerSecond
  /\ last.res.body.token.wellFormed

\* C8: the token of a successful renewal carries the groups and profile fields
\* the store holds for the subject at renewal time, not those of the presented
\* token.
C8_RenewalRefreshesFromStore ==
  Renewed
    => /\ Issued.username = Presented.username
       /\ Issued.username \in DOMAIN fileContents.users
       /\ Issued.groups = fileContents.users[Issued.username].groups
       /\ Issued.email = fileContents.users[Issued.username].email
       /\ Issued.firstName = fileContents.users[Issued.username].firstName
       /\ Issued.lastName = fileContents.users[Issued.username].lastName
       /\ last.res.body.groups = Issued.groups
       /\ last.res.body.email = Issued.email

C8_Witness ==
  /\ Renewed
  /\ Presented.groups # Issued.groups
  /\ Presented.email # Issued.email

\* C9 as stated: a token renewed at time t < renewalDeadline yields
\* new exp = t + tokenLifetime, strictly greater than the presented token's exp
\* whenever tokenLifetime > 0.
C9_Original ==
  (/\ entry = EntrySrc
   /\ Renewed
   /\ last.t < Presented.renewalExpirationDate * TicksPerSecond
   /\ config.tokenLifetime > 0)
    => /\ Issued.exp = FloorSeconds(last.t) + config.tokenLifetime
       /\ Issued.exp > Presented.exp

\* C9 amended: a renewal (of a token this server issued, at a time not past
\* its renewal deadline) yields new exp = floor(t') + tokenLifetime, t' >= t
\* the clock reading taken when the new token is built; the new exp is never
\* smaller than the presented token's, and is strictly greater exactly when
\* floor(t') is later than the second the presented token was issued in.
C9_RenewalMonotone ==
  (entry = EntrySrc /\ Renewed)
    => /\ last.t <= Presented.renewalExpirationDate * TicksPerSecond
       /\ last.t2 >= last.t
       /\ Issued.exp = FloorSeconds(last.t2) + config.tokenLifetime
       /\ Issued.renewalExpirationDate = Issued.exp + config.tokenIdleTimeout
       /\ Issued.exp >= Presented.exp
       /\ (Issued.exp > Presented.exp) <=> (FloorSeconds(last.t2) > Presented.iat)

C9_Witness ==
  /\ entry = EntrySrc
  /\ Renewed
  /\ config.tokenLifetime > 0
  /\ last.t < Presented.renewalExpirationDate * TicksPerSecond
  /\ Issued.exp = Presented.exp

\* C10: authenticate answers an unknown username and a known username with a
\* wrong password with one and the same response (401, success: false, no
\* token): the response does not tell whether the username exists.
C10_UniformAuthenticationFailure ==
  /\ (/\ last.op = "authenticate"
      /\ ~(/\ last.username \in DOMAIN fileContents.users
           /\ fileContents.users[last.username].password.pw = last.arg))
       => /\ last.res.status = 401
          /\ ~last.res.body.success
          /\ last.res.body.token = NoToken
          /\ last.res = [next |-> FALSE, status |-> 401, body |-> NoBody]
  /\ \A unknown \in Usernames \ DOMAIN fileContents.users,
        known \in DOMAIN fileContents.users, p1, p2 \in Passwords :
       fileContents.users[known].password.pw # p2
         => (IF entry = EntrySrc
             THEN authenticateParsedRequest(unknown, p1, now)
                    = authenticateParsedRequest(known, p2, now)
             ELSE Root_authenticateParsedRequest(unknown, p1, now)
                    = Root_authenticateParsedRequest(known, p2, now))

C10_Witness ==
  /\ last.op = "authenticate"
  /\ last.username \notin DOMAIN fileContents.users
  /\ \E known \in DOMAIN fileContents.users :
       fileContents.users[known].password.pw # last.arg
  /\ last.res = AuthenticationFailed

\* the 403 of the gates, field by field
ForbiddenResponse ==
  [next |-> FALSE, status |-> 403,
   body |-> [success |-> FALSE, message |-> "Forbidden", token |-> NoToken,
             username |-> Undefined, groups |-> <<>>, email |-> Undefined,
             firstName |-> Undefined, lastName |-> Undefined, tokenExpirationDate |-> -1]]

\* the answer of the gate `op` of the loaded revision to a request
GateAnswer(op, list, authHeader, t) ==
  CASE op = "requireAuthentication" ->
         IF entry = EntrySrc THEN requireAuthentication(config.jwtSecret, authHeader, t)
         ELSE Root_requireAuthentication(authHeader, t)
    [] op = "allowUsers" ->
         IF entry = EntrySrc THEN allowUsers(list, config.jwtSecret, authHeader, t)
         ELSE Root_allowUsers(list, authHeader, t)
    [] op = "allowGroups" ->
         IF entry = EntrySrc THEN allowGroups(list, config.jwtSecret, authHeader, t)
         ELSE Root_allowGroups(list, authHeader, t)

\* C11: every denial by a gate is the same Forbidden response, whether the
\* cause is a missing header, a bad signature, an expired token, a token
\* without groups, or insufficient group / identity: a gate either calls next
\* or sends status 403 with {success: false, message: 'Forbidden'}.
C11_UniformForbidden ==
  /\ (last.op \in GateOps /\ ~last.res.next) => last.res = ForbiddenResponse
  /\ \A op \in GateOps, authHeader \in AuthHeaders, list \in UserLists \cup GroupLists :
       LET res == GateAnswer(op, list, authHeader, now)
       IN res.next \/ res = ForbiddenResponse

C11_Witness ==
  /\ last.op = "allowGroups"
  /\ ValidToken(last.authHeader, last.t)
  /\ ~Presented.hasGroups
  /\ last.res = ForbiddenResponse

\* ---------------------------------------------------- claims on the store
\* the users the store holds, now and before the last call
StoredUsers == IF backend = "file" THEN DOMAIN fileContents.users ELSE DOMAIN sql.users

StoredUsersBefore ==
  IF backend = "file" THEN DOMAIN call.before.fileContents.users
  ELSE DOMAIN call.before.sql.users

\* nothing of the store differs from what it was before the last call
StoreUnchanged == fileContents = call.before.fileContents /\ sql = call.before.sql

\* the ways authenticateUser of the backend in use can end in this state
AuthenticateUserReturns(username, password) ==
  IF backend = "file" THEN authenticateUserReturns(username, password)
  ELSE SQL_authenticateUserReturns(username, password)

\* C12: for every username u the store does not hold, authenticateUser(u,
\* anything) returns false and never throws, in both store backends.
C12_UnknownUserReturnsFalse ==
  /\ (call.op = "authenticateUser" /\ call.username \notin StoredUsersBefore)
       => call.ret = "false"
  /\ \A username \in StoreUsernames \ StoredUsers, password \in Passwords :
       AuthenticateUserReturns(username, password) = {"false"}

\* C12 for the usernames that are not the name of an inherited property
C12_OrdinaryUnknownUserReturnsFalse ==
  \A username \in Usernames \ StoredUsers, password \in Passwords :
    AuthenticateUserReturns(username, password) = {"false"}

\* C13: for every (u, p) with u not yet in the store, addUser(u, p) returns
\* true, and afterwards authenticateUser(u, p) returns true while
\* authenticateUser(u, p2) returns false for every p2 other than p.
C13_AddUserThenAuthenticate ==
  (call.op = "addUser" /\ call.username \notin StoredUsersBefore)
    => /\ call.ret = "true"
       /\ AuthenticateUserReturns(call.username, call.arg) = {"true"}
       /\ \A p2 \in Passwords \ {call.arg} :
            AuthenticateUserReturns(call.username, p2) = {"false"}

\* C13 for the usernames that are not the name of an inherited property
C13_OrdinaryAddUserThenAuthenticate ==
  (call.username \in Usernames) => C13_AddUserThenAuthenticate

\* C14: a second addUser with a username the store already holds returns
\* false and leaves that user's password hash, groups and profile (the whole
\* store) unchanged, in both backends.
C14_AddUserIdempotentFalse ==
  (call.op = "addUser" /\ call.username \in StoredUsersBefore)
    => /\ call.ret = "false"
       /\ call.status = 409
       /\ StoreUnchanged

C14_Witness ==
  /\ call.op = "addUser"
  /\ call.username \in StoredUsersBefore
  /\ ~("true" \in AuthenticateUserReturns(call.username, call.arg))
  /\ call.ret = "false"

\* C15: when addUser calls for the same new username overlap, at most one
\* returns true, and the record the successful call created -- its password
\* hash and any group membership added since -- is not overwritten by the
\* other call.
C15_UniqueUnderConcurrency ==
  /\ \A p, q \in Procs :
       (p # q /\ procs[p].username = procs[q].username)
         => ~(procs[p].ret = "true" /\ procs[q].ret = "true")
  /\ \A p \in Procs :
       (procs[p].op = "addUser" /\ procs[p].pc \in {"writing", "done"}
          /\ procs[p].ret # "false")
         => /\ procs[p].username \in DOMAIN fileContents.users
            /\ fileContents.users[procs[p].username].password.pw = procs[p].password
  /\ (call.op = "addUserToGroup" /\ call.ret = "true")
       => /\ call.username \in DOMAIN fileContents.users
          /\ call.arg \in Elements(fileContents.users[call.username].groups)

\* ------------------------------------------------- claims on the bootstrap
\* the store holds no user, no group and no membership
EmptyStore(file, db) ==
  IF backend = "file" THEN file = EmptyFile
  ELSE DOMAIN db.users = {} /\ db.groups = {} /\ db.userGroups = <<>>

\* the groups of a stored user, in the backend in use
MembershipOf(username) ==
  IF backend = "file" THEN Elements(fileContents.users[username].groups)
  ELSE Elements(SQL_getUserGroups(username))

BootDone == procs[Boot].op = "initializeDB" /\ procs[Boot].pc = "done"

\* C16: initializeDB run on an empty store with defaultUsername =
\* defaultPassword = defaultGroup = 'admin' results in exactly one user
\* 'admin' belonging to exactly one group 'admin', for each store backend.
C16_BootstrapCreatesDefaultUser ==
  (/\ BootDone
   /\ EmptyStore(call.before.fileContents, call.before.sql)
   /\ procs[Boot].username = "admin"
   /\ procs[Boot].password = "admin"
   /\ procs[Boot].group = "admin")
    => /\ StoredUsers = {"admin"}
       /\ MembershipOf("admin") = {"admin"}
       /\ AuthenticateUserReturns("admin", "admin") = {"true"}

\* C16 for the relational backend alone
C16_SQLBootstrapCreatesDefaultUser == (backend = "sql") => C16_BootstrapCreatesDefaultUser

\* C17: initializeDB run when the store holds at least one user creates no
\* user, creates no group and adds no membership: the store is unchanged at
\* every step of the run.
C17_BootstrapIdempotent ==
  (call.op = "initializeDB" /\ StoredUsersBefore # {}) => StoreUnchanged

C17_Witness ==
  /\ BootDone
  /\ backend = "sql"
  /\ StoredUsersBefore = {"admin"}
  /\ procs[Boot].username = "bob"
  /\ procs[Boot].group = "ops"
  /\ StoreUnchanged

\* ------------------------------------------------- claims on memberships
\* the user was a member of the group before the last call
MemberBefore(username, group) ==
  IF backend = "file"
  THEN group \in Elements(call.before.fileContents.users[username].groups)
  ELSE \E i \in 1..Len(call.before.sql.userGroups) :
         call.before.sql.userGroups[i] = [username |-> username, groupname |-> group]

\* C18: addUserToGroup(u, g) for an existing user u already a member of g is
\* a no-op that still reports success: it returns true (the route answers
\* 200, success: true) and the memberships are unchanged, in both backends.
C18_ExistingMembershipNoOp ==
  (/\ call.op = "addUserToGroup"
   /\ call.username \in StoredUsersBefore
   /\ MemberBefore(call.username, call.arg))
    => /\ call.ret = "true"
       /\ call.status = 200
       /\ call.success = "true"
       /\ StoreUnchanged

\* C18 for the file backend alone
C18_FileExistingMembershipNoOp == (backend = "file") => C18_ExistingMembershipNoOp

\* C19: removeUserFromGroup(u, g) for an existing user u who is not a member
\* of g returns success (true, answered with success: true) and leaves the
\* store unchanged, in both backends.
C19_RemoveAbsentMembership ==
  (/\ call.op = "removeUserFromGroup"
   /\ call.username \in StoredUsersBefore
   /\ ~MemberBefore(call.username, call.arg))
    => /\ call.ret = "true"
       /\ call.status = 200
       /\ call.success = "true"
       /\ StoreUnchanged

\* C19, the store part alone: removing an absent membership changes nothing
C19_RemoveAbsentMembershipNoChange ==
  (/\ call.op = "removeUserFromGroup"
   /\ call.username \in StoredUsersBefore
   /\ ~MemberBefore(call.username, call.arg))
    => StoreUnchanged

\* C20: addUserToGroup(u, g) and removeUserFromGroup(u, g) fail with an error
\* (neither false nor success) when the store holds no user u, and leave
\* the store unchanged, in both backends.
C20_MembershipOfUnknownUserFails ==
  (/\ call.op \in {"addUserToGroup", "removeUserFromGroup"}
   /\ call.username \notin StoredUsersBefore)
    => /\ call.ret = "throws"
       /\ StoreUnchanged

\* C20 for the file backend alone
C20_FileMembershipOfUnknownUserFails ==
  (backend = "file") => C20_MembershipOfUnknownUserFails

\* ------------------------------------------------------- groups and users
StoredGroups == IF backend = "file" THEN fileContents.groups ELSE sql.groups

StoredGroupsBefore ==
  IF backend = "file" THEN call.before.fileContents.groups ELSE call.before.sql.groups

\* C21: deleteGroup(g) returns false and changes nothing when group g does
\* not exist, and returns true with g no longer listed when it did; addGroup(g)
\* returns false when g already exists and true otherwise; neither throws for
\* an existing or a missing group.
C21_GroupOperationsReturnBooleans ==
  /\ call.op = "deleteGroup" =>
       IF call.arg \notin StoredGroupsBefore
       THEN call.ret = "false" /\ StoreUnchanged
       ELSE call.ret = "true" /\ StoredGroups = StoredGroupsBefore \ {call.arg}
  /\ call.op = "addGroup" =>
       IF call.arg \in StoredGroupsBefore
       THEN call.ret = "false" /\ StoreUnchanged
       ELSE call.ret = "true" /\ StoredGroups = StoredGroupsBefore \cup {call.arg}

\* C21, addGroup alone
C21_AddGroupReturnsBooleans ==
  call.op = "addGroup" =>
    IF call.arg \in StoredGroupsBefore
    THEN call.ret = "false" /\ StoreUnchanged
    ELSE call.ret = "true" /\ StoredGroups = StoredGroupsBefore \cup {call.arg}

\* C22: renameUser(old, new) fails with the NotFound error when user old does
\* not exist, and leaves the store unchanged.
C22_RenameOfUnknownUserFails ==
  (/\ call.op = "updateUser"
   /\ call.arg # call.username
   /\ call.username \notin StoredUsersBefore)
    => /\ call.ret = "throws"
       /\ StoreUnchanged

\* C22 for the usernames no object inherits
C22_OrdinaryRenameOfUnknownUserFails ==
  (call.username \notin ObjectPrototypeNames) => C22_RenameOfUnknownUserFails

\* C25: every exception the user store raises while serving a management
\* request is caught by the library and converted into a response with
\* success: false; none is forwarded to the transport's error path.
C25_StoreExceptionsAreCaught ==
  (call.op \in {"addUser", "deleteUser", "addGroup", "deleteGroup", "addUserToGroup",
                "removeUserFromGroup", "updateUser"}
   /\ call.ret = "throws")
    => /\ ~call.forwarded
       /\ call.success = "false"

\* C25 for the routes with a try block
C25_CaughtInTryBlocks ==
  (call.op \in {"addUser", "deleteUser", "updateUser"}) => C25_StoreExceptionsAreCaught

\* C26: the records returned by getUser and getUsers never contain the
\* stored password hash, in either store backend.
C26_ReadsOmitPasswordHash ==
  (call.op \in {"getUser", "getUsers"}) =>
    \A user \in call.body : "password" \notin DOMAIN user

\* C26 for getUser alone
C26_GetUserOmitsPasswordHash ==
  (call.op = "getUser") => C26_ReadsOmitPasswordHash

\* the group list of a stored user, as the backend in use returns it
GroupListOf(username) ==
  IF backend = "file" THEN fileContents.users[username].groups
  ELSE SQL_getUserGroups(username)

NoDuplicates(seq) == \A i, j \in 1..Len(seq) : seq[i] = seq[j] => i = j

\* C27: after any successful or failed addUserToGroup, removeUserFromGroup,
\* setUserGroups or updateUser, no user's group list contains the same group
\* twice.
C27_MembershipUniqueness ==
  (call.op \in {"addUserToGroup", "removeUserFromGroup", "updateUser"}) =>
    \A username \in StoredUsers : NoDuplicates(GroupListOf(username))

\* C27 for the SQL backend alone
C27_SQLMembershipUniqueness == (backend = "sql") => C27_MembershipUniqueness

\* C28: after any successful or failed addGroup, deleteGroup, addUserToGroup,
\* removeUserFromGroup or setUserGroups, every group named in any user's
\* group list exists in the group collection.
C28_NoDanglingGroupReference ==
  (call.op \in {"addGroup", "deleteGroup", "addUserToGroup", "removeUserFromGroup",
                "updateUser"}) =>
    \A username \in StoredUsers : MembershipOf(username) \subseteq StoredGroups

\* C28 where the database enforces the references of user_groups
C28_EnforcedReferences ==
  (backend = "sql" /\ sql.foreignKeys) => C28_NoDanglingGroupReference

\* the profile fields of a stored user are blank
BlankProfile(username) ==
  LET user == IF backend = "file" THEN fileContents.users[username]
              ELSE sql.users[username]
  IN user.email = "" /\ user.firstName = "" /\ user.lastName = ""

\* C29: after deleteUser(u) returned true, a subsequent addUser(u, p) that
\* returns true creates a user that starts with an empty groups list and
\* blank profile fields; none of the old account's profile, group memberships
\* or password survives.  Here the addUser is the very next call.
C29_ReAddedUserStartsEmpty ==
  [][(/\ call.op = "deleteUser" /\ call.ret = "true"
      /\ call'.op = "addUser" /\ call'.ret = "true"
      /\ call'.username = call.username)
       => (/\ MembershipOf(call.username)' = {}
           /\ BlankProfile(call.username)')]_vars

\* C29 for the file backend alone
C29_FileReAddedUserStartsEmpty ==
  [][(/\ backend = "file"
      /\ call.op = "deleteUser" /\ call.ret = "true"
      /\ call'.op = "addUser" /\ call'.ret = "true"
      /\ call'.username = call.username)
       => (/\ MembershipOf(call.username)' = {}
           /\ BlankProfile(call.username)')]_vars

\* ------------------------------------------------------------ persistence
\* every started call has returned
Quiescent == \A p \in Procs : procs[p].pc \in {"idle", "done"}

NoWriteFailed == \A p \in Procs : procs[p].ret # "throws"

\* C23: for the file-backed store, once every started operation has
\* returned, the persisted JSON equals the in-memory state: no interleaving
\* of concurrent operations leaves an older snapshot as the last one
\* written, and a mutation reported successful is present on disk.
C23_PersistedEqualsMemory ==
  (Quiescent /\ NoWriteFailed) => disk = OnDisk(fileContents)

\* C23 when no write of the file ran during another
C23_PersistedEqualsMemoryWithoutOverlap ==
  (\A p \in Procs : ~procs[p].overlapped) => C23_PersistedEqualsMemory

\* C24: mutating operations are side-effect-free on failure: if the
\* persistence write fails, the in-memory state observable by later reads is
\* the same as before the call.  Here the failed call is the only one made.
C24_FailedWriteLeavesMemoryUnchanged ==
  \A p \in Procs :
    (/\ procs[p].ret = "throws"
     /\ \A q \in Procs \ {p} : procs[q].op = "none"
     /\ call.op = "none")
      => fileContents = procs[p].before

\* ------------------------------------------ decoding the token of a request
\* A decoding call returns a promise; the caller continues when the promise
\* settles.  `last` is the call under way: ret is "pending" until then.
DecodeHeaders ==
  {NoHeader, OnePartHeader("Bearer"), Header("Basic", held), Header("Bearer", held),
   Header("Bearer", Tampered(held))}

\* what the promise of the decoding call under way settles to, or Pending
Decoding ==
  IF last.op = "JWT.decodeToken"
  THEN JWT_decodeToken(last.authHeader, config.jwtSecret, FALSE, last.t)
  ELSE decodeTokenHeader(last.authHeader, config.jwtSecret, FALSE, last.t)

\* the embedding application decodes the token of a request with the codec
\* of either revision
Decode_Call ==
  /\ Idle
  /\ \E op \in {"jwt.decodeTokenHeader", "JWT.decodeToken"}, authHeader \in DecodeHeaders :
       last' = [NoOp EXCEPT !.op = op, !.authHeader = authHeader, !.t = now, !.t2 = now,
                            !.ret = "pending"]
  /\ UNCHANGED <<entry, config, fileContents, now, held, nMut, others>>

\* resolve or reject was called: the caller's await continues
Decode_Settle ==
  /\ last.op \in {"jwt.decodeTokenHeader", "JWT.decodeToken"}
  /\ last.ret = "pending"
  /\ Decoding # Pending
  /\ last' = [last EXCEPT !.ret = IF Decoding.ok THEN "resolved" ELSE "rejected"]
  /\ UNCHANGED <<entry, config, fileContents, now, held, nMut, others>>

\* a gate is invoked and awaits jwt.decodeTokenHeader
Gate_Invoke ==
  /\ Idle
  /\ \E op \in GateOps, list \in {<<>>, <<"admin">>}, authHeader \in DecodeHeaders :
       last' = [NoOp EXCEPT !.op = op, !.list = list, !.authHeader = authHeader,
                            !.t = now, !.t2 = now, !.ret = "pending"]
  /\ UNCHANGED <<entry, config, fileContents, now, held, nMut, others>>

\* its promise settled: the gate calls next() or sends Forbidden
Gate_Answer ==
  /\ last.op \in GateOps
  /\ last.ret = "pending"
  /\ Decoding # Pending
  /\ last' = [last EXCEPT !.ret = "answered",
                          !.res = GateAnswer(last.op, last.list, last.authHeader, last.t)]
  /\ UNCHANGED <<entry, config, fileContents, now, held, nMut, others>>

\* the caller is done with the call
Decode_Done ==
  /\ last.ret \in {"resolved", "rejected", "answered"}
  /\ last' = NoOp
  /\ UNCHANGED <<entry, config, fileContents, now, held, nMut, others>>

DecodeNext ==
  \/ Tick
  \/ Decode_Call
  \/ Decode_Settle
  \/ Gate_Invoke
  \/ Gate_Answer
  \/ Decode_Done

\* the event loop runs the continuation of every settled promise
DecodeSpec ==
  GateInit /\ [][DecodeNext]_vars /\ WF_vars(Decode_Settle) /\ WF_vars(Gate_Answer)

\* C30: every call that decodes the bearer token of a request eventually
\* resolves or rejects, including for a request with no Authorization
\* header, so every gate invocation eventually calls next or sends Forbidden.
C30_DecodingSettles ==
  (last.ret = "pending") ~> (last.ret \in {"resolved", "rejected", "answered"})

\* C30 for the codec the gates call, jwt.js
C30_DecodeTokenHeaderSettles ==
  (last.ret = "pending" /\ last.op # "JWT.decodeToken")
    ~> (last.ret \in {"resolved", "rejected", "answered"})

\* ---------------------------------------------------------- the routers
\* adminGroups = ['admin'], the default of users, groups and defaultRouters
DefaultAdminGroups == <<"admin">>

\* the gate before GET / of the router users(adminGroups)
users_List(adminGroups, authHeader, t) ==
  IF config.userListVisibility = "public" THEN CallNext
  ELSE IF config.userListVisibility = "authenticated"
       THEN requireAuthentication(config.jwtSecret, authHeader, t)
  ELSE allowGroups(adminGroups, config.jwtSecret, authHeader, t)

\* the gate before every other route but email and password of users(adminGroups)
users_Admin(adminGroups, authHeader, t) ==
  allowGroups(adminGroups, config.jwtSecret, authHeader, t)

\* the gate before GET / of the router groups(adminGroups): the second test
\* reads userListVisibility
groups_List(adminGroups, authHeader, t) ==
  IF config.groupListVisibility = "public" THEN CallNext
  ELSE IF config.userListVisibility = "authenticated"
       THEN requireAuthentication(config.jwtSecret, authHeader, t)
  ELSE allowGroups(adminGroups, config.jwtSecret, authHeader, t)

\* the gate before POST / and DELETE /:group of groups(adminGroups)
groups_Admin(adminGroups, authHeader, t) ==
  allowGroups(adminGroups, config.jwtSecret, authHeader, t)

\* defaultRouters(adminGroups): router.use('/users', this.users()) and
\* router.use('/groups', this.groups()) pass no argument; /usernames is
\* gated with adminGroups and this.config.jwtToken, which is never set
defaultRouters(adminGroups, route, authHeader, t) ==
  CASE route = "/users" -> users_Admin(DefaultAdminGroups, authHeader, t)
    [] route = "GET /users" -> users_List(DefaultAdminGroups, authHeader, t)
    [] route = "/groups" -> groups_Admin(DefaultAdminGroups, authHeader, t)
    [] route = "GET /groups" -> groups_List(DefaultAdminGroups, authHeader, t)
    [] route = "/usernames" -> allowGroups(adminGroups, Undefined, authHeader, t)

Visibilities == {"public", "authenticated", "admin", Undefined}
AdminGroupLists == {<<"admin">>, <<"ops">>, <<"ops", "staff">>}
RouterHeaders == {NoHeader, Header("Bearer", held), Header("Bearer", Tampered(held))}

RouterInit ==
  /\ entry = EntrySrc
  /\ config \in [jwtSecret : {Secret}, tokenLifetime : {1}, tokenIdleTimeout : {1},
                 issuer : {""}, userListVisibility : Visibilities,
                 groupListVisibility : Visibilities]
  /\ fileContents = DefaultFile
  /\ now = 0
  /\ held \in {tok \in SignedTokens : tok.claims.hasGroups /\ tok.claims.username = "admin"}
  /\ last = NoOp
  /\ nMut = 0
  /\ backend = "file"
  /\ sql = EmptySQL(FALSE)
  /\ call = NoCall
  /\ procs = NoProcs
  /\ disk = OnDisk(fileContents)

\* a request to a route of the router defaultRouters(adminGroups) returned
Router_Default ==
  /\ Idle
  /\ \E adminGroups \in AdminGroupLists, authHeader \in RouterHeaders,
        route \in {"/users", "GET /users", "/groups", "GET /groups", "/usernames"} :
       last' = [NoOp EXCEPT !.op = "defaultRouters", !.arg = route, !.list = adminGroups,
                            !.authHeader = authHeader, !.t = now, !.t2 = now,
                            !.res = defaultRouters(adminGroups, route, authHeader, now)]
  /\ UNCHANGED <<entry, config, fileContents, now, held, nMut, others>>

\* a request to the router users(adminGroups), mounted by the application
Router_Users ==
  /\ Idle
  /\ \E adminGroups \in AdminGroupLists, authHeader \in RouterHeaders,
        route \in {"/users", "GET /users"} :
       last' = [NoOp EXCEPT !.op = "users", !.arg = route, !.list = adminGroups,
                            !.authHeader = authHeader, !.t = now, !.t2 = now,
                            !.res = IF route = "GET /users"
                                    THEN users_List(adminGroups, authHeader, now)
                                    ELSE users_Admin(adminGroups, authHeader, now)]
  /\ UNCHANGED <<entry, config, fileContents, now, held, nMut, others>>

\* a request to the router groups(adminGroups), mounted by the application
Router_Groups ==
  /\ Idle
  /\ \E adminGroups \in AdminGroupLists, authHeader \in RouterHeaders,
        route \in {"/groups", "GET /groups"} :
       last' = [NoOp EXCEPT !.op = "groups", !.arg = route, !.list = adminGroups,
                            !.authHeader = authHeader, !.t = now, !.t2 = now,
                            !.res = IF route = "GET /groups"
                                    THEN groups_List(adminGroups, authHeader, now)
                                    ELSE groups_Admin(adminGroups, authHeader, now)]
  /\ UNCHANGED <<entry, config, fileContents, now, held, nMut, others>>

RouterNext ==
  \/ Tick
  \/ Router_Default
  \/ Router_Users
  \/ Router_Groups
  \/ Respond

RouterSpec == RouterInit /\ [][RouterNext]_vars

\* the presented token is valid and one of its groups is among `groups`
TokenOfGroups(groups) ==
  /\ ValidToken(last.authHeader, last.t)
  /\ \E g \in Elements(Presented.groups) : g \in Elements(groups)

\* C31: defaultRouters(adminGroups) gates every admin-only /users and
\* /groups route with the adminGroups it was given: for an adminGroups list
\* other than ['admin'], a valid token whose groups include a listed admin
\* group is permitted and a token whose only group is 'admin' (not listed) is
\* denied.
C31_DefaultRoutersUseAdminGroups ==
  (/\ last.op = "defaultRouters"
   /\ last.arg \in {"/users", "/groups"}
   /\ last.list # <<"admin">>
   /\ ValidToken(last.authHeader, last.t))
    => /\ TokenOfGroups(last.list) => last.res = CallNext
       /\ (Presented.groups = <<"admin">> /\ "admin" \notin Elements(last.list))
             => last.res = Forbidden

\* C31 for the routers users(adminGroups) and groups(adminGroups) themselves
C31_RoutersUseAdminGroups ==
  (/\ last.op \in {"users", "groups"}
   /\ last.arg \in {"/users", "/groups"}
   /\ ValidToken(last.authHeader, last.t))
    => /\ TokenOfGroups(last.list) => last.res = CallNext
       /\ ~TokenOfGroups(last.list) => last.res = Forbidden

\* C32: access to the group list (GET /groups) is decided by
\* groupListVisibility alone: 'public' admits any request, 'authenticated'
\* admits any request with a valid non-expired token, and any other value
\* admits only members of an admin group, independently of the value of
\* userListVisibility.
C32_GroupListVisibilityAlone ==
  (last.op = "groups" /\ last.arg = "GET /groups") =>
    (last.res = CallNext) =
      (CASE config.groupListVisibility = "public" -> TRUE
         [] config.groupListVisibility = "authenticated" ->
              ValidToken(last.authHeader, last.t)
         [] OTHER -> TokenOfGroups(last.list))

\* the same of the user list and userListVisibility
C32_UserListVisibilityAlone ==
  (last.op = "users" /\ last.arg = "GET /users") =>
    (last.res = CallNext) =
      (CASE config.userListVisibility = "public" -> TRUE
         [] config.userListVisibility = "authenticated" ->
              ValidToken(last.authHeader, last.t)
         [] OTHER -> TokenOfGroups(last.list))

\* ----------------------------------------------------------------- rename
\* the stored record of a user and its memberships, in the store `file` / `db`
RecordIn(file, db, username) ==
  IF backend = "file"
  THEN [password |-> file.users[username].password, email |-> file.users[username].email,
        firstName |-> file.users[username].firstName,
        lastName |-> file.users[username].lastName,
        groups |-> Elements(file.users[username].groups)]
  ELSE [password |-> db.users[username].password, email |-> db.users[username].email,
        firstName |-> db.users[username].firstName,
        lastName |-> db.users[username].lastName,
        groups |-> {db.userGroups[i].groupname :
                      i \in {j \in 1..Len(db.userGroups) :
                               db.userGroups[j].username = username}}]

RecordOf(username) == RecordIn(fileContents, sql, username)

RecordBefore(username) == RecordIn(call.before.fileContents, call.before.sql, username)

\* the last call renamed, or tried to rename, call.username to call.arg
Renaming == call.op = "updateUser" /\ call.arg # call.username

\* C33: renameUser(old, new) never violates username uniqueness or another
\* user's credentials: when new is already the name of a different existing
\* user, that user's password hash, profile and groups are left unchanged and
\* old's password does not authenticate as new afterwards.
C33_RenameOntoExistingUser ==
  (/\ Renaming
   /\ call.username \in StoredUsersBefore
   /\ call.arg \in StoredUsersBefore)
    => /\ call.arg \in StoredUsers
       /\ RecordOf(call.arg) = RecordBefore(call.arg)

\* C33 for the SQL backend alone
C33_SQLRenameOntoExistingUser == (backend = "sql") => C33_RenameOntoExistingUser

\* C34: renameUser(old, new) with old existing and new not in use succeeds
\* and moves the whole record: afterwards old is absent, and new has old's
\* password hash, profile fields and group memberships, in both backends.
C34_RenameMovesRecord ==
  (/\ Renaming
   /\ call.list = NoGroups
   /\ call.username \in StoredUsersBefore
   /\ call.arg \notin StoredUsersBefore
   /\ call.arg \notin ObjectPrototypeNames)
    => /\ call.ret = "true"
       /\ call.username \notin StoredUsers
       /\ call.arg \in StoredUsers
       /\ RecordOf(call.arg) = RecordBefore(call.username)

\* C34 in the SQL backend when no row of user_groups carries either name
C34_SQLRenameOfUserWithoutGroups ==
  (/\ backend = "sql"
   /\ \A i \in 1..Len(call.before.sql.userGroups) :
        call.before.sql.userGroups[i].username \notin {call.username, call.arg})
    => C34_RenameMovesRecord

\* C34 for the SQL backend alone
C34_SQLRenameMovesRecord == (backend = "sql") => C34_RenameMovesRecord

\* ------------------------------------------------ renewal over both stores
\* renewTokenParsedRequest of src/src/index.js with this.authDB an SQLAuthDB:
\* user.get() on no row throws, as users[username].email does on no record
SQL_renewTokenParsedRequest(authHeader, t, t2) ==
  LET decodedOldToken ==
        decodeTokenHeader(authHeader, config.jwtSecret, RenewIgnoreExpiration, t)
  IN IF ~decodedOldToken.ok THEN ExpiredToken
     ELSE IF RenewalExpired(decodedOldToken.claims, t) THEN ExpiredToken
     ELSE LET username == decodedOldToken.claims.username
          IN IF ~SQL_FindOne(username) THEN ExpiredToken
             ELSE LET user == SQL_getUser(username)
                      expirationDate == ExpirationDate(t2)
                      renewalExpirationDate == expirationDate + config.tokenIdleTimeout
                      token == encodeToken(IssuedClaims(username, user, expirationDate,
                                                        renewalExpirationDate, config.issuer),
                                           config.jwtSecret, t2)
                  IN TokenResponse(token, username, user, expirationDate)

\* the tokens a client can hold that the secret signed: issued for a user,
\* by this issuer or by another holder of the secret, which may leave the
\* renewalExpirationDate claim out (-1)
RenewableTokens ==
  {encodeToken([NoClaims EXCEPT !.exp = 1, !.renewalExpirationDate = renewalExpirationDate,
                                !.username = username, !.groups = <<"admin">>,
                                !.hasGroups = TRUE, !.email = "", !.firstName = "",
                                !.lastName = "", !.iss = ""],
               Secret, 0) :
     username \in Usernames, renewalExpirationDate \in {-1, 1, 2}}

RenewInit ==
  /\ backend \in {"file", "sql"}
  /\ entry \in (IF backend = "file" THEN {EntryRoot, EntrySrc} ELSE {EntrySrc})
  /\ config = [jwtSecret |-> Secret, tokenLifetime |-> 1, tokenIdleTimeout |-> 1,
               issuer |-> "", userListVisibility |-> Undefined,
               groupListVisibility |-> Undefined]
  /\ IF backend = "file"
     THEN fileContents = DefaultFile /\ sql = EmptySQL(FALSE)
     ELSE fileContents = EmptyFile /\ sql \in {DefaultSQL(fk) : fk \in BOOLEAN}
  /\ now = 0
  /\ held \in RenewableTokens
  /\ last = NoOp
  /\ nMut = 0
  /\ call = NoCall
  /\ procs = NoProcs
  /\ disk = OnDisk(fileContents)

\* DELETE /users/:username
Renew_DeleteUser ==
  /\ Idle
  /\ \E username \in StoreUsernames :
       ManagementCall("deleteUser", username, Undefined, deleteUser(username),
                      SQL_deleteUser(username), TRUE)

\* POST /users
Renew_AddUser ==
  /\ Idle
  /\ \E username \in Usernames, password \in Passwords, salt \in Salts :
       ManagementCall("addUser", username, password, addUser(username, password, salt),
                      SQL_addUser(username, password, salt), TRUE)

\* GET /renew-token with the held token, or with no header
Renew_RenewToken ==
  /\ Idle
  /\ \E authHeader \in {NoHeader, Header("Bearer", held)}, elapsed \in 0..1 :
    /\ now + elapsed <= MaxTime
    /\ LET res == IF backend = "sql"
                  THEN SQL_renewTokenParsedRequest(authHeader, now, now + elapsed)
                  ELSE IF entry = EntrySrc
                       THEN renewTokenParsedRequest(authHeader, now, now + elapsed)
                  ELSE Root_renewTokenParsedRequest(authHeader, now, now + elapsed)
       IN /\ last' = [NoOp EXCEPT !.op = "renewToken", !.authHeader = authHeader,
                                  !.t = now, !.t2 = now + elapsed, !.res = res]
          /\ held' = Keep(res)
          /\ now' = now + elapsed
          /\ UNCHANGED <<entry, config, fileContents, nMut, others>>

RenewNext ==
  \/ Tick
  \/ Renew_AddUser
  \/ Renew_DeleteUser
  \/ Renew_RenewToken
  \/ Respond

RenewSpec == RenewInit /\ [][RenewNext]_vars

\* C35: a correctly signed token can be renewed only up to a deadline it
\* carries: a renew request presenting a signed token that has no
\* renewalExpirationDate claim is rejected, so no token is renewable at an
\* arbitrarily late time.
C35_RenewalNeedsDeadline ==
  (/\ last.op = "renewToken"
   /\ SignatureVerifies(last.authHeader)
   /\ Presented.renewalExpirationDate = -1)
    => last.res = ExpiredToken

\* C35 for the tokens that carry the claim: none is renewed past its deadline
C35_RenewalWithinDeadline ==
  (/\ last.op = "renewToken"
   /\ SignatureVerifies(last.authHeader)
   /\ Presented.renewalExpirationDate # -1
   /\ Presented.renewalExpirationDate * TicksPerSecond < last.t)
    => last.res = ExpiredToken

\* the last renew request presented a signed token issued for the user the
\* last management call deleted: no user has been created since
RenewAfterDelete ==
  /\ last.op = "renewToken"
  /\ call.op = "deleteUser"
  /\ call.ret = "true"
  /\ SignatureVerifies(last.authHeader)
  /\ Presented.username = call.username

C36_WitnessSQL ==
  /\ RenewAfterDelete
  /\ backend = "sql"
  /\ ~RenewalExpired(Presented, last.t)
  /\ last.res = ExpiredToken

\* ------------------------------------------------- runs of initializeDB
\* Two runs on one store, each at one of its awaits: src/index.js starts one
\* in its constructor and the server starts one before it listens.  The
\* store is the first FileAuthDB under src/index.js and SQLAuthDB under
\* src/src/index.js.  A run stops where an awaited call of the store rejects.
Running(p) == procs[p].pc \notin {"idle", "done", "failed"}

RunsInit ==
  /\ entry \in {EntryRoot, EntrySrc}
  /\ config = [jwtSecret |-> Secret, tokenLifetime |-> 1, tokenIdleTimeout |-> 1,
               issuer |-> "", userListVisibility |-> Undefined,
               groupListVisibility |-> Undefined]
  /\ backend = (IF entry = EntryRoot THEN "file" ELSE "sql")
  /\ fileContents = EmptyFile
  /\ sql \in (IF backend = "file" THEN {EmptySQL(FALSE)} ELSE {EmptySQL(fk) : fk \in BOOLEAN})
  /\ now = 0
  /\ held = NoToken
  /\ last = NoOp
  /\ nMut = 0
  /\ call = NoCall
  \* both runs read the defaults of the one config
  /\ \E defaultUsername \in Usernames, defaultPassword \in Passwords,
        defaultGroup \in GroupNames :
       procs = [p \in Procs |->
                  [NoProc EXCEPT !.username = defaultUsername,
                                 !.password = defaultPassword, !.group = defaultGroup]]
  /\ disk = OnDisk(fileContents)

\* a step of run p: the store after it, and where the run continues
RunStep(p, pc, fileAfter, sqlAfter) ==
  /\ fileContents' = (IF backend = "file" THEN fileAfter ELSE fileContents)
  /\ sql' = (IF backend = "file" THEN sql ELSE sqlAfter)
  /\ procs' = [procs EXCEPT ![p].pc = pc]
  /\ disk' = OnDisk(fileContents')
  /\ UNCHANGED <<entry, config, now, held, last, nMut, backend, call>>

\* initializeDB is called: up to `await this.authDB.getUsers()`
Run_Start(p) ==
  /\ procs[p].pc = "idle"
  /\ procs' = [q \in Procs |->
                IF q = p
                THEN [procs[q] EXCEPT !.op = "initializeDB", !.pc = "getUsers",
                                      !.overlapped = \E r \in Procs : Running(r)]
                ELSE IF Running(q) THEN [procs[q] EXCEPT !.overlapped = TRUE]
                ELSE procs[q]]
  /\ UNCHANGED <<entry, config, fileContents, now, held, last, nMut, backend, sql, call, disk>>

\* if (users.length <= 0) { await this.authDB.addUser(...
Run_GetUsers(p) ==
  /\ procs[p].pc = "getUsers"
  /\ RunStep(p, IF NoUsersFound THEN "addUser" ELSE "done", fileContents, sql)

\* addUser up to its await of hashPassword: FileAuthDB returns false for a
\* name in use, SQLAuthDB tests nothing before the hash
Run_AddUser_Call(p) ==
  /\ procs[p].pc = "addUser"
  /\ RunStep(p, IF backend = "file" /\ HasUser(procs[p].username) THEN "getGroups"
                ELSE "hashing",
             fileContents, sql)

\* FileAuthDB.addUser after its await of hashPassword: the record is assigned
\* whatever the users hold by now
addUser_Assign(username, password, salt) ==
  Outcome(WithUser(username,
                   [username |-> username, password |-> hashPassword(password, salt),
                    groups |-> <<>>, email |-> "", firstName |-> "", lastName |-> ""]),
          "true")

\* ... the record is assigned (User.create), written, and addUser returns;
\* let groups = await this.authDB.getGroups()
Run_AddUser_Assign(p) ==
  /\ procs[p].pc = "hashing"
  /\ \E salt \in Salts :
       RunStep(p, "getGroups",
               addUser_Assign(procs[p].username, procs[p].password, salt).fileContents,
               SQL_addUser(procs[p].username, procs[p].password, salt).sql)

\* ... if (groups.indexOf(defaultGroup) < 0) await this.authDB.addGroup(defaultGroup)
Run_GetGroups(p) ==
  /\ procs[p].pc = "getGroups"
  /\ RunStep(p, IF GroupMissing(procs[p].group) THEN "addGroup" ELSE "addUserToGroup",
             fileContents, sql)

Run_AddGroup(p) ==
  /\ procs[p].pc = "addGroup"
  /\ RunStep(p, "addUserToGroup", addGroup(procs[p].group).fileContents,
             SQL_addGroup(procs[p].group).sql)

\* ... await this.authDB.addUserToGroup(defaultUsername, defaultGroup) }
Run_AddUserToGroup(p) ==
  /\ procs[p].pc = "addUserToGroup"
  /\ RunStep(p, "done",
             addUserToGroup(procs[p].username, procs[p].group).fileContents,
             SQL_addUserToGroup(procs[p].username, procs[p].group).sql)

\* an awaited call after addUser rejects (the file cannot be written, the
\* database is gone) or the process ends: nothing catches it inside
\* initializeDB, the run is over
Run_Fails(p) ==
  /\ procs[p].pc \in {"getGroups", "addGroup", "addUserToGroup"}
  /\ procs' = [procs EXCEPT ![p].pc = "failed"]
  /\ UNCHANGED <<entry, config, fileContents, now, held, last, nMut, backend, sql, call, disk>>

RunsNext ==
  \/ \E p \in Procs : Run_Start(p)
  \/ \E p \in Procs : Run_GetUsers(p)
  \/ \E p \in Procs : Run_AddUser_Call(p)
  \/ \E p \in Procs : Run_AddUser_Assign(p)
  \/ \E p \in Procs : Run_GetGroups(p)
  \/ \E p \in Procs : Run_AddGroup(p)
  \/ \E p \in Procs : Run_AddUserToGroup(p)
  \/ \E p \in Procs : Run_Fails(p)

RunsSpec == RunsInit /\ [][RunsNext]_vars

\* the default user of the config is stored and is in the default group
DefaultUserInDefaultGroup ==
  /\ StoredUsers = {procs[1].username}
  /\ procs[1].group \in MembershipOf(procs[1].username)

\* C38: when two initializeDB runs overlap on an empty store (one started by
\* the constructor, one by the server), for every interleaving at their
\* awaits the store ends, once both have completed, with exactly one default
\* user who is a member of the default group.
C38_OverlappingRunsAgree ==
  (\A p \in Procs : procs[p].pc = "done") => DefaultUserInDefaultGroup

C38_Witness ==
  /\ \A p \in Procs : procs[p].pc = "done" /\ procs[p].overlapped
  /\ entry = EntryRoot
  /\ DefaultUserInDefaultGroup

C38_WitnessSQL ==
  /\ \A p \in Procs : procs[p].pc = "done" /\ procs[p].overlapped
  /\ backend = "sql"
  /\ DefaultUserInDefaultGroup

\* C39: bootstrap recovers from an interrupted run: if a bootstrap run fails
\* after creating the default user but before adding it to the default
\* group, a later initializeDB run completes the missing steps, so that
\* eventually the default user is a member of the default group.
C39_LaterRunCompletes ==
  (/\ entry = EntrySrc
   /\ procs[1].pc = "failed"
   /\ procs[2].pc = "done"
   /\ ~procs[2].overlapped)
    => DefaultUserInDefaultGroup

\* ------------------------------------------- initialize() and initializeDB
\* src/src/index.js calls this.authDB.initialize() without awaiting it.  The
\* run of initializeDB is process 1; the promise of initialize() is process
\* 2, which is at one of the three syncs of SQLAuthDB.initialize until it
\* settles.  FileAuthDB.initialize awaits nothing and is complete on return.
Syncs == <<"users", "groups", "user_groups">>

HasTable(table) == backend = "file" \/ table \in sql.tables

InitializeInit ==
  /\ entry = EntrySrc
  /\ config = [jwtSecret |-> Secret, tokenLifetime |-> 1, tokenIdleTimeout |-> 1,
               issuer |-> "", userListVisibility |-> Undefined,
               groupListVisibility |-> Undefined]
  /\ backend \in {"file", "sql"}
  /\ fileContents \in (IF backend = "file" THEN {EmptyFile, DefaultFile} ELSE {EmptyFile})
  /\ sql \in (IF backend = "file" THEN {EmptySQL(FALSE)}
              ELSE UNION {{FreshSQL(fk), EmptySQL(fk), DefaultSQL(fk)} : fk \in BOOLEAN})
  /\ now = 0
  /\ held = NoToken
  /\ last = NoOp
  /\ nMut = 0
  /\ call = NoCall
  /\ \E defaultUsername \in Usernames, defaultPassword \in Passwords,
        defaultGroup \in GroupNames :
       procs = [p \in Procs |->
                  [NoProc EXCEPT !.username = defaultUsername,
                                 !.password = defaultPassword, !.group = defaultGroup]]
  /\ disk = OnDisk(fileContents)

\* initialize() as far as it runs inside the call: all of it in FileAuthDB,
\* up to `await this.User.sync()` in SQLAuthDB
initialize ==
  IF backend = "file" THEN [NoProc EXCEPT !.op = "initialize", !.pc = "done"]
  ELSE [NoProc EXCEPT !.op = "initialize", !.pc = Syncs[1]]

InitializeStep(pc, sqlAfter) ==
  /\ procs' = [procs EXCEPT ![1].pc = pc]
  /\ sql' = (IF backend = "sql" THEN sqlAfter ELSE sql)
  /\ UNCHANGED <<entry, config, fileContents, now, held, last, nMut, backend, call, disk>>

\* this.authDB.initialize(); ... up to `await this.authDB.getUsers()`
Initialize_Start ==
  /\ procs[1].pc = "idle"
  /\ procs' = [procs EXCEPT ![1].op = "initializeDB", ![1].pc = "getUsers",
                            ![2] = [initialize EXCEPT !.username = procs[2].username,
                                                      !.password = procs[2].password,
                                                      !.group = procs[2].group]]
  /\ UNCHANGED <<entry, config, fileContents, now, held, last, nMut, backend, sql, call, disk>>

\* the sync that initialize() awaits completes (CREATE TABLE IF NOT EXISTS);
\* initialize() goes on to the next one, or settles after the third
Initialize_Sync ==
  /\ procs[2].op = "initialize"
  /\ \E i \in 1..Len(Syncs) :
       /\ procs[2].pc = Syncs[i]
       /\ sql' = [sql EXCEPT !.tables = @ \cup {Syncs[i]}]
       /\ procs' = [procs EXCEPT ![2].pc = IF i < Len(Syncs) THEN Syncs[i + 1] ELSE "done"]
  /\ UNCHANGED <<entry, config, fileContents, now, held, last, nMut, backend, call, disk>>

\* let users = await this.authDB.getUsers(): User.findAll, then getUserGroups
\* of every row; a query on a missing table rejects.  if (users.length <= 0)
Initialize_GetUsers ==
  /\ procs[1].pc = "getUsers"
  /\ InitializeStep(IF ~HasTable("users") THEN "failed"
                    ELSE IF backend = "sql" /\ DOMAIN sql.users # {} /\ ~HasTable("user_groups")
                         THEN "failed"
                    ELSE IF NoUsersFound THEN "addUser" ELSE "done",
                    sql)

\* await this.authDB.addUser(defaultUsername, defaultPassword): a create that
\* fails is caught inside addUser
Initialize_AddUser ==
  /\ procs[1].pc = "addUser"
  /\ \E salt \in Salts :
       InitializeStep("getGroups",
                      IF HasTable("users")
                      THEN SQL_addUser(procs[1].username, procs[1].password, salt).sql
                      ELSE sql)

\* let groups = await this.authDB.getGroups()
Initialize_GetGroups ==
  /\ procs[1].pc = "getGroups"
  /\ InitializeStep(IF ~HasTable("groups") THEN "failed"
                    ELSE IF GroupMissing(procs[1].group) THEN "addGroup"
                    ELSE "addUserToGroup",
                    sql)

Initialize_AddGroup ==
  /\ procs[1].pc = "addGroup"
  /\ InitializeStep("addUserToGroup",
                    IF HasTable("groups") THEN SQL_addGroup(procs[1].group).sql ELSE sql)

\* await this.authDB.addUserToGroup(...): a create that fails is caught; the
\* promise of initializeDB resolves
Initialize_AddUserToGroup ==
  /\ procs[1].pc = "addUserToGroup"
  /\ InitializeStep("done",
                    IF HasTable("user_groups")
                    THEN SQL_addUserToGroup(procs[1].username, procs[1].group).sql
                    ELSE sql)

InitializeNext ==
  \/ Initialize_Start
  \/ Initialize_Sync
  \/ Initialize_GetUsers
  \/ Initialize_AddUser
  \/ Initialize_GetGroups
  \/ Initialize_AddGroup
  \/ Initialize_AddUserToGroup

InitializeSpec == InitializeInit /\ [][InitializeNext]_vars

\* initializeDB has got the user collection from the store
UsersRead == procs[1].pc \in {"addUser", "getGroups", "addGroup", "addUserToGroup", "done"}

\* C37: initializeDB orders store initialization before bootstrap: the
\* store's initialize() has completed before initializeDB reads the user
\* collection, and before the promise returned by initializeDB resolves (so
\* before the server starts listening).
C37_InitializeBeforeBootstrap == UsersRead => procs[2].pc = "done"

\* with the file store initialize() is complete when the call returns
C37_FileInitializeBeforeBootstrap ==
  (backend = "file" /\ procs[1].pc # "idle") => procs[2].pc = "done"

\* with SQLAuthDB the promise of initializeDB resolves while initialize() is
\* still at a sync
C37_ResolvedDuringSync == ~(procs[1].pc = "done" /\ procs[2].pc \in {"users", "groups", "user_groups"})

====
